---- MODULE Spec2Model ----
(***************************************************************************)
(* Route resolution engine of gapp: the client Router (a trie over path    *)
(* segments with a metadata cache and a URL builder) and the server-side   *)
(* linear matcher (MatchRoute / MatchPattern / SplitPath).                 *)
(*                                                                         *)
(* Strings are sequences of one-character strings, so that split, trim,    *)
(* startsWith, endsWith and slice are computed and not assumed.            *)
(***************************************************************************)
EXTENDS Integers, Sequences, FiniteSets, TLC

(***************************************************************************)
(* Bounds of the model.                                                    *)
(***************************************************************************)
\* Longest route list handed to the constructor (the root route included).
MaxRoutes == 3
\* Most calls made on a constructed router (find, current, url).
MaxCalls == 2

\* Routes (RouteSpec values) a preload engine is configured with, at most.
MaxSpecs == 2

\* Most callbacks handed to onNavigate on one router.
MaxSubs == 2

\* Most middlewares added to a dispatcher.
MaxMiddlewares == 2

\* Most messages sent on one stream.
MaxMessages == 2

\* The values a byte takes: the 256 of the source scaled down, so that a
\* message longer than the length prefix can count is within reach.
ByteBase == 2

\* The bytes of the length prefix.
PrefixLen == 4

(***************************************************************************)
(* String primitives (JavaScript String / Go strings).                     *)
(***************************************************************************)
\* The value JavaScript calls undefined; no character string equals it.
Undefined == <<"undefined">>

\* String.prototype.startsWith / strings.HasPrefix for a one-character prefix.
StartsWith(s, c) == Len(s) > 0 /\ s[1] = c

\* String.prototype.endsWith / strings.HasSuffix for a one-character suffix.
EndsWith(s, c) == Len(s) > 0 /\ s[Len(s)] = c

\* part.slice(1)
SliceFrom1(s) == SubSeq(s, 2, Len(s))

\* part.slice(1, -1)
Slice1ToLast(s) == SubSeq(s, 2, Len(s) - 1)

\* part.slice(0, -1)
Slice0ToLast(s) == SubSeq(s, 1, Len(s) - 1)

\* The loop of split: pieces closed so far in acc, the open piece in cur.
RECURSIVE SplitFrom(_, _, _, _)
SplitFrom(s, i, acc, cur) ==
  IF i > Len(s) THEN Append(acc, cur)
  ELSE IF s[i] = "/" THEN SplitFrom(s, i + 1, Append(acc, cur), <<>>)
  ELSE SplitFrom(s, i + 1, acc, Append(cur, s[i]))

\* s.split("/"): one piece more than there are separators, empty pieces kept.
JsSplit(s) == SplitFrom(s, 1, <<>>, <<>>)

\* .filter(Boolean) on an array of strings: the empty strings are dropped.
FilterBoolean(parts) == SelectSeq(parts, LAMBDA x : x # <<>>)

\* route.path.split("/").filter(Boolean)
SplitFiltered(s) == FilterBoolean(JsSplit(s))

\* strings.Trim(path, "/"): every leading and trailing slash is cut.
RECURSIVE TrimSlashes(_)
TrimSlashes(s) ==
  IF s = <<>> THEN s
  ELSE IF s[1] = "/" THEN TrimSlashes(SubSeq(s, 2, Len(s)))
  ELSE IF s[Len(s)] = "/" THEN TrimSlashes(SubSeq(s, 1, Len(s) - 1))
  ELSE s

\* Segments joined with "/" (Array.prototype.join).
RECURSIVE JoinSlash(_)
JoinSlash(parts) ==
  IF parts = <<>> THEN <<>>
  ELSE IF Len(parts) = 1 THEN parts[1]
  ELSE parts[1] \o <<"/">> \o JoinSlash(Tail(parts))

(***************************************************************************)
(* Routes, trie nodes, parameters and metadata.                            *)
(***************************************************************************)
\* The absent route (null in a node's `node` field).
NoRoute == [oid |-> 0, path |-> <<>>, falsy |-> FALSE]

\* The absent dynamic child (null in a node's `dynamic` field).
NoDyn == [key |-> <<>>, optional |-> FALSE, value |-> 0]

\* The static map {} of a fresh node.
EmptyStatic == [k \in {} |-> 0]

\* { node: null, static: {}, dynamic: null }
EmptyNode == [node |-> NoRoute, static |-> EmptyStatic, dynamic |-> NoDyn]

\* The parameter object {}.
EmptyParams == [k \in {} |-> Undefined]

\* A falsy Metadata value (0, "", null): what a factory of a falsy route returns.
FalsyMeta == [oid |-> 0, params |-> EmptyParams, inst |-> 0]

\* find's null result.
NullMeta == [oid |-> -1, params |-> EmptyParams, inst |-> -1]

\* JavaScript truthiness of a Metadata value or of find's result.
Truthy(m) == m # FalsyMeta /\ m # NullMeta

\* route.factory(params): a fresh object per call (inst), or the falsy primitive.
Factory(route, params, inst) ==
  IF route.falsy THEN FalsyMeta
  ELSE [oid |-> route.oid, params |-> params, inst |-> inst]

(***************************************************************************)
(* Objects: the trie is an arena of nodes, children named by index. Node 1 *)
(* is the root; entry 2 is the object every static map ({}) inherits under *)
(* the name "constructor", with the node and dynamic properties the router *)
(* sets on it and no static property.                                      *)
(***************************************************************************)
\* The synthetic start node of find: { node: null, static: {"": tree} }.
Synthetic == 0

\* The object current.static[name] yields for a property name inherited from
\* Object.prototype: no trie node, it has no static map.
Foreign == 2

\* find left by a TypeError: a property read on undefined.
Thrown == -3

\* Property names every object literal inherits (static is created as {}); the
\* name is written as one symbol.
ProtoKeys == { <<"constructor">> }

\* current.static[segment] of the node cur (0 when the lookup is undefined): an
\* own key first, else an inherited property.
StaticChild(t, cur, segment) ==
  IF cur = Synthetic /\ segment = <<>> THEN 1
  ELSE IF cur # Synthetic /\ segment \in DOMAIN t[cur].static
    THEN t[cur].static[segment]
  ELSE IF segment \in ProtoKeys THEN Foreign
  ELSE 0

(***************************************************************************)
(* Router.addRouteToTree                                                   *)
(***************************************************************************)
\* Mutant of WithDynamic: every dynamic child is flagged optional.
WithDynamic_AlwaysOptional(t, cur, key, isOptional) ==
  IF t[cur].dynamic # NoDyn THEN t
  ELSE Append([t EXCEPT ![cur].dynamic =
                 [key |-> key, optional |-> TRUE, value |-> Len(t) + 1]],
              EmptyNode)

\* The node a dynamic segment descends into, created when the node has none.
WithDynamic(t, cur, key, isOptional) ==
  IF t[cur].dynamic # NoDyn THEN t
  ELSE Append([t EXCEPT ![cur].dynamic =
                 [key |-> key, optional |-> isOptional, value |-> Len(t) + 1]],
              EmptyNode)

\* Mutant of WithOptionalEndpoint: an optional parameter makes no endpoint.
WithOptionalEndpoint_Never(t, cur, isOptional, route) == t

\* An optional parameter makes the current node an endpoint, if it has none.
WithOptionalEndpoint(t, cur, isOptional, route) ==
  IF isOptional /\ t[cur].node = NoRoute THEN [t EXCEPT ![cur].node = route]
  ELSE t

\* The node a literal segment descends into, created when current.static[part]
\* is falsy.
WithStatic(t, cur, part) ==
  IF StaticChild(t, cur, part) # 0 THEN t
  ELSE Append([t EXCEPT ![cur].static = (part :> (Len(t) + 1)) @@ @], EmptyNode)

\* Mutant of SetTerminal: the terminal is replaced without the comparison.
SetTerminal_Overwrite(t, cur, route) ==
  [err |-> "", tree |-> [t EXCEPT ![cur].node = route]]

\* The end of addRouteToTree: a different route at the node is a conflict.
SetTerminal(t, cur, route) ==
  IF t[cur].node # NoRoute /\ t[cur].node # route
    THEN [err |-> "ConflictingRoutes", tree |-> t]
    ELSE [err |-> "", tree |-> [t EXCEPT ![cur].node = route]]

\* Mutant of DynamicConflict: the names are not compared.
DynamicConflict_Never(t, cur, key) == FALSE

\* The test of lines 265-271: the node has a dynamic child under another name.
DynamicConflict(t, cur, key) ==
  t[cur].dynamic # NoDyn /\ t[cur].dynamic.key # key

\* The loop of addRouteToTree from part i on, standing at node cur; reading
\* current.static[part] of an object without a static map throws.
RECURSIVE AddParts(_, _, _, _, _)
AddParts(t, route, parts, i, cur) ==
  IF i > Len(parts) THEN SetTerminal(t, cur, route)
  ELSE
    LET part == parts[i]
        isOptional == EndsWith(part, "?")
        isDynamic == StartsWith(part, ":")
        key == IF isOptional THEN Slice0ToLast(part) ELSE part
    IN IF isDynamic
         THEN IF DynamicConflict(t, cur, key)
                THEN [err |-> "ConflictingDynamic", tree |-> t]
                ELSE LET t1 == WithDynamic(t, cur, key, isOptional)
                         t2 == WithOptionalEndpoint(t1, cur, isOptional, route)
                     IN AddParts(t2, route, parts, i + 1, t2[cur].dynamic.value)
         ELSE IF cur = Foreign
                THEN [err |-> "TypeError", tree |-> t]
                ELSE LET t1 == WithStatic(t, cur, part)
                     IN AddParts(t1, route, parts, i + 1, StaticChild(t1, cur, part))

\* Router.addRouteToTree(route) on the trie t: the new trie, or the error thrown.
AddRouteToTree(t, route) == AddParts(t, route, SplitFiltered(route.path), 1, 1)

(***************************************************************************)
(* Router.find and Router.findParams.                                      *)
(***************************************************************************)
\* current.dynamic.value of the node cur (0 when dynamic is null).
DynamicChild(t, cur) ==
  IF cur = Synthetic THEN 0 ELSE t[cur].dynamic.value

\* Mutant of Step: the dynamic edge first.
Step_DynamicFirst(t, cur, segment) ==
  LET child == StaticChild(t, cur, segment)
  IN IF DynamicChild(t, cur) # 0 THEN DynamicChild(t, cur)
     ELSE IF child # 0 THEN child
     ELSE -1

\* One step of find's loop: the static edge first, else the dynamic one, else
\* no node (-1, find returns null).
Step(t, cur, segment) ==
  LET child == StaticChild(t, cur, segment)
  IN IF child # 0 THEN child
     ELSE IF DynamicChild(t, cur) # 0 THEN DynamicChild(t, cur)
     ELSE -1

\* find's loop over the segments from index i, standing at node cur; a step from
\* an object without a static map throws.
RECURSIVE Walk(_, _, _, _)
Walk(t, segments, i, cur) ==
  IF cur = -1 THEN -1
  ELSE IF i > Len(segments) THEN cur
  ELSE IF cur = Foreign THEN Thrown
  ELSE Walk(t, segments, i + 1, Step(t, cur, segments[i]))

\* The name of a dynamic pattern segment: slice(1, -1) if optional, else slice(1).
ParamName(routeSegment) ==
  IF EndsWith(routeSegment, "?") THEN Slice1ToLast(routeSegment)
  ELSE SliceFrom1(routeSegment)

\* Mutant of FindParams: the pathname's segments are not filtered, so every
\* index is off by the leading empty segment.
FindParams_Unfiltered(routePath, pathname) ==
  LET rs == SplitFiltered(routePath)
      ps == JsSplit(pathname)
      dyn == {i \in 1..Len(rs) : StartsWith(rs[i], ":")}
      names == {ParamName(rs[i]) : i \in dyn}
      lastOf(n) == CHOOSE i \in dyn : /\ ParamName(rs[i]) = n
                                      /\ \A j \in dyn : ParamName(rs[j]) = n => j <= i
  IN [n \in names |-> IF lastOf(n) <= Len(ps) THEN ps[lastOf(n)] ELSE Undefined]

\* Router.findParams(routePath, pathname): by index, the last segment of a name wins.
FindParams(routePath, pathname) ==
  LET rs == SplitFiltered(routePath)
      ps == SplitFiltered(pathname)
      dyn == {i \in 1..Len(rs) : StartsWith(rs[i], ":")}
      names == {ParamName(rs[i]) : i \in dyn}
      lastOf(n) == CHOOSE i \in dyn : /\ ParamName(rs[i]) = n
                                      /\ \A j \in dyn : ParamName(rs[j]) = n => j <= i
  IN [n \in names |-> IF lastOf(n) <= Len(ps) THEN ps[lastOf(n)] ELSE Undefined]

\* The route find selects for a path that is not in the cache, and its parameters.
Resolve(t, path) ==
  IF path = <<"/">>
    THEN [matched |-> t[1].node # NoRoute, route |-> t[1].node,
          params |-> EmptyParams,
          err |-> IF t[1].node = NoRoute THEN "TypeError" ELSE ""]
    ELSE LET node == Walk(t, JsSplit(path), 1, Synthetic)
         IN IF node = Thrown
              THEN [matched |-> FALSE, route |-> NoRoute, params |-> EmptyParams,
                    err |-> "TypeError"]
            ELSE IF node \in {-1, Synthetic} \/ t[node].node = NoRoute
              THEN [matched |-> FALSE, route |-> NoRoute, params |-> EmptyParams,
                    err |-> ""]
            ELSE [matched |-> TRUE, route |-> t[node].node,
                  params |-> FindParams(t[node].node.path, path), err |-> ""]

\* this.metadataCache.get(path)
CacheGet(cache, path) == IF path \in DOMAIN cache THEN cache[path] ELSE NullMeta

\* Mutant of Find: a failed lookup is cached too.
Find_CachesFailure(t, cache, path, inst) ==
  IF Truthy(CacheGet(cache, path))
    THEN [result |-> cache[path], cache |-> cache, calls |-> <<>>,
          matched |-> TRUE, route |-> NoRoute, params |-> EmptyParams,
          hit |-> TRUE, err |-> ""]
  ELSE LET r == Resolve(t, path)
           m == Factory(r.route, r.params, inst)
       IN IF ~r.matched
            THEN [result |-> NullMeta, cache |-> (path :> NullMeta) @@ cache,
                  calls |-> <<>>,
                  matched |-> FALSE, route |-> NoRoute, params |-> EmptyParams,
                  hit |-> FALSE, err |-> r.err]
            ELSE [result |-> m, cache |-> (path :> m) @@ cache,
                  calls |-> <<[oid |-> r.route.oid, params |-> r.params]>>,
                  matched |-> TRUE, route |-> r.route, params |-> r.params,
                  hit |-> FALSE, err |-> ""]

\* Router.find(path): the value returned, the cache afterwards, the factory
\* calls made, the route and parameters selected; inst names the next object.
Find(t, cache, path, inst) ==
  IF Truthy(CacheGet(cache, path))
    THEN [result |-> cache[path], cache |-> cache, calls |-> <<>>,
          matched |-> TRUE, route |-> NoRoute, params |-> EmptyParams,
          hit |-> TRUE, err |-> ""]
  ELSE LET r == Resolve(t, path)
           m == Factory(r.route, r.params, inst)
       IN IF ~r.matched
            THEN [result |-> NullMeta, cache |-> cache, calls |-> <<>>,
                  matched |-> FALSE, route |-> NoRoute, params |-> EmptyParams,
                  hit |-> FALSE, err |-> r.err]
            ELSE [result |-> m, cache |-> (path :> m) @@ cache,
                  calls |-> <<[oid |-> r.route.oid, params |-> r.params]>>,
                  matched |-> TRUE, route |-> r.route, params |-> r.params,
                  hit |-> FALSE, err |-> ""]

(***************************************************************************)
(* Router.url (called without queryParams).                                *)
(***************************************************************************)
\* params[paramName]
ParamGet(params, name) == IF name \in DOMAIN params THEN params[name] ELSE Undefined

\* !paramValue: undefined and the empty string are falsy.
FalsyParam(v) == v = Undefined \/ v = <<>>

\* Mutant of UrlParts: an omitted optional parameter is skipped and the walk
\* goes on.
RECURSIVE UrlParts_SkipOptional(_, _, _, _)
UrlParts_SkipOptional(parts, params, i, acc) ==
  IF i > Len(parts) THEN [err |-> "", name |-> <<>>, parts |-> acc]
  ELSE
    LET part == parts[i]
        isOptional == EndsWith(part, "?")
        paramName == IF isOptional THEN Slice1ToLast(part) ELSE SliceFrom1(part)
        paramValue == ParamGet(params, paramName)
    IN IF StartsWith(part, ":")
         THEN IF FalsyParam(paramValue)
                THEN IF isOptional
                       THEN UrlParts_SkipOptional(parts, params, i + 1, acc)
                       ELSE [err |-> "MissingParameter", name |-> paramName, parts |-> acc]
                ELSE UrlParts_SkipOptional(parts, params, i + 1, Append(acc, paramValue))
         ELSE UrlParts_SkipOptional(parts, params, i + 1, Append(acc, part))

\* Mutant of UrlParts: a missing required parameter is emitted as the text
\* "undefined".
RECURSIVE UrlParts_Placeholder(_, _, _, _)
UrlParts_Placeholder(parts, params, i, acc) ==
  IF i > Len(parts) THEN [err |-> "", name |-> <<>>, parts |-> acc]
  ELSE
    LET part == parts[i]
        isOptional == EndsWith(part, "?")
        paramName == IF isOptional THEN Slice1ToLast(part) ELSE SliceFrom1(part)
        paramValue == ParamGet(params, paramName)
    IN IF StartsWith(part, ":")
         THEN IF FalsyParam(paramValue)
                THEN IF isOptional
                       THEN [err |-> "", name |-> <<>>, parts |-> acc]
                       ELSE UrlParts_Placeholder(parts, params, i + 1,
                                                 Append(acc, Undefined))
                ELSE UrlParts_Placeholder(parts, params, i + 1, Append(acc, paramValue))
         ELSE UrlParts_Placeholder(parts, params, i + 1, Append(acc, part))

\* url's loop from part i on, urlParts collected so far in acc.
RECURSIVE UrlParts(_, _, _, _)
UrlParts(parts, params, i, acc) ==
  IF i > Len(parts) THEN [err |-> "", name |-> <<>>, parts |-> acc]
  ELSE
    LET part == parts[i]
        isOptional == EndsWith(part, "?")
        paramName == IF isOptional THEN Slice1ToLast(part) ELSE SliceFrom1(part)
        paramValue == ParamGet(params, paramName)
    IN IF StartsWith(part, ":")
         THEN IF FalsyParam(paramValue)
                THEN IF isOptional
                       THEN [err |-> "", name |-> <<>>, parts |-> acc]
                       ELSE [err |-> "MissingParameter", name |-> paramName, parts |-> acc]
                ELSE UrlParts(parts, params, i + 1, Append(acc, paramValue))
         ELSE UrlParts(parts, params, i + 1, Append(acc, part))

\* Mutant of Url: the parts are joined without the leading slash.
Url_NoLeadingSlash(registered, route, params) ==
  IF route \notin registered
    THEN [err |-> "Unregistered", name |-> <<>>, about |-> <<>>, url |-> <<>>]
    ELSE LET u == UrlParts(SplitFiltered(route.path), params, 1, <<>>)
         IN [err |-> u.err, name |-> u.name,
             about |-> IF u.err = "" THEN <<>> ELSE route.path,
             url |-> IF u.err = "" THEN JoinSlash(u.parts) ELSE <<>>]

\* Mutant of Url: a route counts as registered when a registered route has
\* its path.
Url_ByPath(registered, route, params) ==
  IF \A r \in registered : r.path # route.path
    THEN [err |-> "Unregistered", name |-> <<>>, about |-> <<>>, url |-> <<>>]
    ELSE LET u == UrlParts(SplitFiltered(route.path), params, 1, <<>>)
         IN [err |-> u.err, name |-> u.name,
             about |-> IF u.err = "" THEN <<>> ELSE route.path,
             url |-> IF u.err = "" THEN <<"/">> \o JoinSlash(u.parts) ELSE <<>>]

\* Router.url(route, params): the URL, or the error thrown. A missing-parameter
\* error carries the parameter's name (`name`) and route.path (`about`), the
\* two values its message is made of.
Url(registered, route, params) ==
  IF route \notin registered
    THEN [err |-> "Unregistered", name |-> <<>>, about |-> <<>>, url |-> <<>>]
    ELSE LET u == UrlParts(SplitFiltered(route.path), params, 1, <<>>)
         IN [err |-> u.err, name |-> u.name,
             about |-> IF u.err = "" THEN <<>> ELSE route.path,
             url |-> IF u.err = "" THEN <<"/">> \o JoinSlash(u.parts) ELSE <<>>]

(***************************************************************************)
(* Server side: SplitPath, MatchPattern, MatchRoute.                       *)
(***************************************************************************)
\* SplitPath(path): trimmed of slashes, then split; the empty path has no segment.
SplitPath(path) ==
  LET trimmed == TrimSlashes(path)
  IN IF trimmed = <<>> THEN <<>> ELSE JsSplit(trimmed)

\* Mutant of GoParamName: the optional marker stays in the name.
GoParamName_KeepMark(pp) ==
  IF StartsWith(pp, ":") THEN SubSeq(pp, 2, Len(pp)) ELSE pp

\* strings.TrimSuffix(strings.TrimPrefix(pp, ":"), "?")
GoParamName(pp) ==
  LET a == IF StartsWith(pp, ":") THEN SubSeq(pp, 2, Len(pp)) ELSE pp
  IN IF EndsWith(a, "?") THEN SubSeq(a, 1, Len(a) - 1) ELSE a

\* Mutant of MatchParts: path segments left over after the pattern is
\* exhausted do not fail the pattern.
RECURSIVE MatchParts_IgnoreRest(_, _, _, _, _)
MatchParts_IgnoreRest(patternParts, pathParts, k, pi, params) ==
  IF k > Len(patternParts) THEN [ok |-> TRUE, params |-> params]
  ELSE
    LET pp == patternParts[k]
        optional == EndsWith(pp, "?")
    IN IF StartsWith(pp, ":")
         THEN IF pi < Len(pathParts)
                THEN MatchParts_IgnoreRest(patternParts, pathParts, k + 1, pi + 1,
                                (GoParamName(pp) :> pathParts[pi + 1]) @@ params)
                ELSE IF ~optional THEN [ok |-> FALSE, params |-> EmptyParams]
                ELSE MatchParts_IgnoreRest(patternParts, pathParts, k + 1, pi, params)
         ELSE IF pi >= Len(pathParts) \/ pathParts[pi + 1] # pp
                THEN [ok |-> FALSE, params |-> EmptyParams]
                ELSE MatchParts_IgnoreRest(patternParts, pathParts, k + 1, pi + 1, params)

\* MatchPattern's loop from pattern part k on, pi path parts consumed so far.
RECURSIVE MatchParts(_, _, _, _, _)
MatchParts(patternParts, pathParts, k, pi, params) ==
  IF k > Len(patternParts)
    THEN IF pi # Len(pathParts) THEN [ok |-> FALSE, params |-> EmptyParams]
         ELSE [ok |-> TRUE, params |-> params]
  ELSE
    LET pp == patternParts[k]
        optional == EndsWith(pp, "?")
    IN IF StartsWith(pp, ":")
         THEN IF pi < Len(pathParts)
                THEN MatchParts(patternParts, pathParts, k + 1, pi + 1,
                                (GoParamName(pp) :> pathParts[pi + 1]) @@ params)
                ELSE IF ~optional THEN [ok |-> FALSE, params |-> EmptyParams]
                ELSE MatchParts(patternParts, pathParts, k + 1, pi, params)
         ELSE IF pi >= Len(pathParts) \/ pathParts[pi + 1] # pp
                THEN [ok |-> FALSE, params |-> EmptyParams]
                ELSE MatchParts(patternParts, pathParts, k + 1, pi + 1, params)

\* MatchPattern(pattern, path)
MatchPattern(pattern, path) ==
  MatchParts(SplitPath(pattern), SplitPath(path), 1, 0, EmptyParams)

\* Mutant of MatchFrom: the last pattern that matches.
RECURSIVE MatchFrom_Last(_, _, _)
MatchFrom_Last(patterns, path, i) ==
  IF i > Len(patterns)
    THEN [ok |-> FALSE, index |-> 0, pattern |-> <<>>, params |-> EmptyParams]
  ELSE LET later == MatchFrom_Last(patterns, path, i + 1)
           m == MatchPattern(patterns[i], path)
       IN IF later.ok THEN later
          ELSE IF m.ok
            THEN [ok |-> TRUE, index |-> i, pattern |-> patterns[i],
                  params |-> m.params]
            ELSE later

\* MatchRoute's loop from route i on: the first pattern that matches.
RECURSIVE MatchFrom(_, _, _)
MatchFrom(patterns, path, i) ==
  IF i > Len(patterns)
    THEN [ok |-> FALSE, index |-> 0, pattern |-> <<>>, params |-> EmptyParams]
  ELSE LET m == MatchPattern(patterns[i], path)
       IN IF m.ok
            THEN [ok |-> TRUE, index |-> i, pattern |-> patterns[i],
                  params |-> m.params]
            ELSE MatchFrom(patterns, path, i + 1)

\* MatchRoute(routes, path) over the routes' patterns.
MatchRoute(patterns, path) == MatchFrom(patterns, path, 1)

\* A Go map[string]string: nil, or its key/value pairs.
NilMap == [nil |-> TRUE, kv |-> EmptyParams]

\* make(map[string]string) holding the pairs kv.
GoMap(kv) == [nil |-> FALSE, kv |-> kv]

\* strings.ReplaceAll(s, old, new) from position i on, old not empty: the
\* non-overlapping occurrences of old, leftmost first.
RECURSIVE ReplaceFrom(_, _, _, _)
ReplaceFrom(s, old, new, i) ==
  IF i > Len(s) THEN <<>>
  ELSE IF i + Len(old) - 1 <= Len(s) /\ SubSeq(s, i, i + Len(old) - 1) = old
         THEN new \o ReplaceFrom(s, old, new, i + Len(old))
         ELSE <<s[i]>> \o ReplaceFrom(s, old, new, i + 1)

\* strings.ReplaceAll(s, old, new)
ReplaceAll(s, old, new) == ReplaceFrom(s, old, new, 1)

\* The orders in which `range` may visit the keys of a map: Go leaves the
\* iteration order of a map unspecified, and it differs from run to run.
RangeOrders(keys) ==
  { q \in [1..Cardinality(keys) -> keys] : \A a \in keys : \E i \in DOMAIN q : q[i] = a }

\* SubstituteParams' inner loop (lines 323-325) visiting routeParams in `order`.
RECURSIVE ReplaceEach(_, _, _)
ReplaceEach(value, routeParams, order) ==
  IF order = <<>> THEN value
  ELSE ReplaceEach(ReplaceAll(value, <<":">> \o Head(order), routeParams[Head(order)]),
                   routeParams, Tail(order))

\* SubstituteParams(rpcParams, routeParams); orders[key] is the order in which
\* the inner loop run for `key` visits routeParams.
SubstituteParams(rpcParams, routeParams, orders) ==
  IF rpcParams.nil THEN NilMap
  ELSE GoMap([key \in DOMAIN rpcParams.kv |->
                ReplaceEach(rpcParams.kv[key], routeParams, orders[key])])

\* strings.Contains(v, ":")
ContainsColon(v) == \E i \in 1..Len(v) : v[i] = ":"

\* Mutant of HasUnsubstitutedParam: only a leading ':' counts.
HasUnsubstitutedParam_LeadingOnly(params) ==
  \E key \in DOMAIN params.kv : StartsWith(params.kv[key], ":")

\* HasUnsubstitutedParam(params); ranging over a nil map visits nothing.
HasUnsubstitutedParam(params) ==
  \E key \in DOMAIN params.kv : ContainsColon(params.kv[key])

(***************************************************************************)
(* Inputs: the route lists a Router is constructed from, the pathnames     *)
(* looked up and the parameter objects handed to url.                      *)
(***************************************************************************)
\* "/"
RootPath == <<"/">>

\* Route patterns: static, trailing slash, required, optional, optional
\* mid-pattern, and literals that are an inherited property name.
Patterns ==
  { RootPath,
    <<"/", "u">>,
    <<"/", "u", "/">>,
    <<"/", "u", "/", "m">>,
    <<"/", "u", "/", ":", "i">>,
    <<"/", "u", "/", ":", "j">>,
    <<"/", "u", "/", ":", "i", "?">>,
    <<"/", "u", "/", ":", "i", "?", "/", "m">>,
    <<"/", "constructor">>,
    <<"/", "u", "/", "constructor">>,
    <<"/", "constructor", "/", "m">> }

\* Pathnames: canonical ones, and ones with an empty segment.
Paths ==
  { RootPath,
    <<"/", "u">>,
    <<"/", "u", "/">>,
    <<"/", "u", "/", "m">>,
    <<"/", "u", "/", "7">>,
    <<"/", "u", "/", "constructor">>,
    <<"/", "u", "/", "/", "m">> }

\* Pathnames the window API reports to current().
WindowPaths == { <<"/", "u">>, <<"/", "u", "/">> }

\* Parameter objects for url: nothing, or i: empty, a value, an inherited
\* property name, a value with a slash in it.
ParamObjects ==
  { EmptyParams }
  \cup { (<<"i">> :> v) :
           v \in {<<>>, <<"7">>, <<"m">>, <<"constructor">>, <<"7", "/", "m">>} }

\* The parameter objects url is handed for a route: those that name parameters
\* of the route's pattern only.
ParamObjectsFor(route) ==
  LET rs == SplitFiltered(route.path)
      names == {ParamName(rs[k]) : k \in {j \in 1..Len(rs) : StartsWith(rs[j], ":")}}
  IN {params \in ParamObjects : DOMAIN params \subseteq names}

\* A route object: its identity, its path, and whether its factory returns a
\* falsy Metadata value.
RouteObject(oid, path, falsy) == [oid |-> oid, path |-> path, falsy |-> falsy]

\* Route lists of length n: entry k is a new object, or the object of the entry
\* before it once more; all factories of a list return objects, or all return a falsy value.
RECURSIVE RouteListsOf(_, _, _)
RouteListsOf(n, first, falsy) ==
  IF n = 0 THEN { <<>> }
  ELSE IF n = 1 THEN { <<RouteObject(1, p, falsy)>> : p \in first }
  ELSE LET shorter == RouteListsOf(n - 1, first, falsy)
       IN { Append(l, r) : l \in shorter,
                           r \in { RouteObject(n, p, falsy) : p \in Patterns } }
          \cup { Append(l, l[n - 1]) : l \in shorter }

\* Every route list the constructor is given: up to MaxRoutes routes with the
\* root route first, short lists whose factories return a falsy value, and short
\* lists whose first route is not the root route.
RouteLists ==
  UNION { RouteListsOf(n, {RootPath}, FALSE) : n \in 0..MaxRoutes }
  \cup UNION { RouteListsOf(n, {RootPath}, TRUE) : n \in 1..2 }
  \cup UNION { RouteListsOf(n, Patterns \ {RootPath}, FALSE) : n \in 1..2 }

(***************************************************************************)
(* The Router as a state machine.                                          *)
(***************************************************************************)
VARIABLES
  phase,          \* "new", "adding" (constructor loop), "ready", "failed" (threw)
  routes,         \* the constructor's argument
  idx,            \* the constructor's position in routes.slice(1)
  tree,           \* this.tree
  registered,     \* this.cache: Set<Route>
  metadataCache,  \* this.metadataCache: Map<string, Metadata>
  listeners,      \* popstate listeners registered on the window API
  nextInst,       \* the next Metadata object a factory creates
  ncalls,         \* calls made on the constructed router
  last            \* the last call made on the router and its outcome

vars == <<phase, routes, idx, tree, registered, metadataCache, listeners,
          nextInst, ncalls, last>>

\* No call made yet.
NoCall ==
  [op |-> "none", path |-> <<>>, route |-> NoRoute, params |-> EmptyParams,
   result |-> NullMeta, calls |-> <<>>, hit |-> FALSE, matched |-> FALSE,
   url |-> <<>>, err |-> "", about |-> <<>>]

(***************************************************************************)
(* The preload engine: one run of executeForPath, its goroutines included. *)
(***************************************************************************)
VARIABLES
  engineRoutes,   \* p.Routes
  urlPath,        \* r.URL.Path
  mainPc,         \* executeForPath's position: "idle", "spawn", "returned"
  srvRoute,       \* `route`: the matched route's index in p.Routes, 0 for nil
  srvParams,      \* `routeParams`
  gpc,            \* each started goroutine's position, in starting order
  subParams,      \* each goroutine's `rpcParams` (the substituted params)
  outcome,        \* each goroutine's sub-call: "none", "skipped", "failed", "ok"
  mu,             \* sync.Mutex: the goroutine holding it, 0 when unlocked
  wg,             \* sync.WaitGroup counter
  preloaded,      \* the aggregated map, method name -> PreloadedRpc
  returned        \* the map executeForPath returned

pvars == <<engineRoutes, urlPath, mainPc, srvRoute, srvParams, gpc, subParams,
           outcome, mu, wg, preloaded, returned>>

\* make(map[string]PreloadedRpc)
NoPreloaded == [m \in {} |-> [by |-> 0, params |-> NilMap]]

\* No request is being served.
PreloadIdle ==
  /\ engineRoutes = <<>>
  /\ urlPath = <<>>
  /\ mainPc = "idle"
  /\ srvRoute = 0
  /\ srvParams = EmptyParams
  /\ gpc = <<>>
  /\ subParams = <<>>
  /\ outcome = <<>>
  /\ mu = 0
  /\ wg = 0
  /\ preloaded = NoPreloaded
  /\ returned = NoPreloaded

(***************************************************************************)
(* Navigation: the window, the router's subscribers (a callback set) and   *)
(* the call of the subscribers that is in progress.                        *)
(***************************************************************************)
VARIABLES
  windowKind,     \* the windowAPI: "browser" (BrowserWindowAPI), "plain", "none"
  windowPath,     \* what windowAPI.getPathname() returns
  subscribers,    \* this.subscribers: the Set of references, in insertion order
  nextReg,        \* the next reference add creates
  addsDone,       \* whether the one-shot adding callback has added its callback
  handles,        \* references whose unsubscribe function a caller holds
  unsubscribed,   \* references whose unsubscribe function was called
  navPc,          \* "idle", or whose call of the subscribers is running
  callCopy,       \* call: `copy`
  callPos,        \* call: forEach's position in copy
  callArg,        \* call: `args`
  callThrew,      \* call: a callback threw and forEach was left
  navStart,       \* the subscribers when the running operation started
  navLog          \* the callback invocations of the running operation

nvars == <<windowKind, windowPath, subscribers, nextReg, addsDone, handles,
           unsubscribed, navPc, callCopy, callPos, callArg, callThrew,
           navStart, navLog>>

\* No router yet, the window at "/", nobody subscribed.
NavIdle ==
  /\ windowKind = "none"
  /\ windowPath = <<"/">>
  /\ subscribers = <<>>
  /\ nextReg = 1
  /\ addsDone = FALSE
  /\ handles = {}
  /\ unsubscribed = {}
  /\ navPc = "idle"
  /\ callCopy = <<>>
  /\ callPos = 1
  /\ callArg = NullMeta
  /\ callThrew = FALSE
  /\ navStart = <<>>
  /\ navLog = <<>>

(***************************************************************************)
(* The RPC dispatcher (rpc.go) serving one request at a time through its   *)
(* middlewares.                                                            *)
(***************************************************************************)
VARIABLES
  middlewares,    \* d.middlewares, in the order Use was called
  dpc,            \* "setup", "chain" (in the middlewares), "respond", "served"
  request,        \* the request ServeHTTP was handed
  chain,          \* `handler` after the wrapping loop: middlewares, outermost first
  chainPos,       \* how deep in chain the request is
  ctxToken,       \* r.Context().Value(authTokenKey): 0 is nil
  validated,      \* what the last validate call returned, -1 before any
  ran,            \* what ran for this request, in order
  rpcErr,         \* the error code the handler chain returned, "" for none
  status          \* the HTTP status written, 0 before

dvars == <<middlewares, dpc, request, chain, chainPos, ctxToken, validated,
           ran, rpcErr, status>>

\* No request yet.
NoRequest == [http |-> "", method |-> "", credA |-> FALSE, credB |-> FALSE,
              bodyOk |-> TRUE]

\* NewDispatcher(), lines 50-59.
DispatchIdle ==
  /\ middlewares = <<>>
  /\ dpc = "setup"
  /\ request = NoRequest
  /\ chain = <<>>
  /\ chainPos = 1
  /\ ctxToken = 0
  /\ validated = -1
  /\ ran = <<>>
  /\ rpcErr = ""
  /\ status = 0

(***************************************************************************)
(* gapp codegen: the proto file, the generated outputs and the stored hash.*)
(***************************************************************************)
VARIABLES
  protoContent,   \* the contents of the proto file
  hashFile,       \* the contents of .gapp/codegen.hash, Missing when absent
  outputs,        \* for each output, the proto contents it was generated from
  cgPc,           \* RunCodegen's position: "idle" between runs, else the step
  cgForce,        \* --force of the last run
  cgResult,       \* what was done last: a run that ended "skipped", "failed" or
                  \* "ok", or "running", an edit, a direct WriteHash
  storedAtStart,  \* what ReadStoredHash returned when the last run started
  readBack        \* what the last call of ReadStoredHash returned

cvars == <<protoContent, hashFile, outputs, cgPc, cgForce, cgResult,
           storedAtStart, readBack>>

\* No file .gapp/codegen.hash.
Missing == [exists |-> FALSE, data |-> ""]

\* The outputs RunCodegen generates, in the order of its steps.
OutputNames == <<"go", "ts", "preload">>

\* A project that was never generated.
CodegenIdle ==
  /\ protoContent = 1
  /\ hashFile = Missing
  /\ outputs = [o \in {"go", "ts", "preload"} |-> 0]
  /\ cgPc = "idle"
  /\ cgForce = FALSE
  /\ cgResult = "none"
  /\ storedAtStart = ""
  /\ readBack = ""

(***************************************************************************)
(* Length-prefixed framing: StreamAdapter.Send writes, MessageReader reads.*)
(***************************************************************************)
VARIABLES
  sent,           \* the messages handed to Send, in order
  wire,           \* the bytes Send wrote to the response
  fpc,            \* "sending", then "reading"
  data,           \* MessageReader.data
  offset,         \* MessageReader.offset
  offsetBefore,   \* MessageReader.offset when the last Next was called
  got,            \* the messages Next returned, in order
  ferr            \* the error of the last Next: "none", "", "EOF", "UnexpectedEOF"

fvars == <<sent, wire, fpc, data, offset, offsetBefore, got, ferr>>

\* Nothing sent, no reader.
FrameIdle ==
  /\ sent = <<>>
  /\ wire = <<>>
  /\ fpc = "sending"
  /\ data = <<>>
  /\ offset = 0
  /\ offsetBefore = 0
  /\ got = <<>>
  /\ ferr = "none"

(***************************************************************************)
(* createRpcProxy: the calls made through the proxy and the events the     *)
(* stores were sent.                                                       *)
(***************************************************************************)
VARIABLES
  proxyCalls,     \* the calls made through the proxy, in the order made
  events          \* the events dispatched to the stores, in order

xvars == <<proxyCalls, events>>

\* No call made through the proxy yet.
ProxyIdle ==
  /\ proxyCalls = <<>>
  /\ events = <<>>

\* The variables of the components other than the router, the preload engine
\* and navigation.
ovars == <<dvars, cvars, fvars, xvars>>

Init ==
  /\ PreloadIdle
  /\ NavIdle
  /\ DispatchIdle
  /\ CodegenIdle
  /\ FrameIdle
  /\ ProxyIdle
  /\ phase = "new"
  /\ routes = <<>>
  /\ idx = 0
  /\ tree = <<>>
  /\ registered = {}
  /\ metadataCache = [k \in {} |-> NullMeta]
  /\ listeners = {}
  /\ nextInst = 1
  /\ ncalls = 0
  /\ last = NoCall

\* Mutant of Construct: the popstate listener is registered first.
Construct_ListenerFirst(rs) ==
  /\ phase = "new"
  /\ routes' = rs
  /\ listeners' = listeners \cup {"onPopstate"}
  /\ IF Len(rs) = 0
       THEN /\ phase' = "failed"
            /\ last' = [NoCall EXCEPT !.op = "new", !.err = "NoRoutes"]
            /\ UNCHANGED <<idx, tree>>
     ELSE IF rs[1].path # RootPath
       THEN /\ phase' = "failed"
            /\ last' = [NoCall EXCEPT !.op = "new", !.err = "FirstNotRoot"]
            /\ UNCHANGED <<idx, tree>>
     ELSE /\ phase' = "adding"
          /\ tree' = << [node |-> rs[1], static |-> EmptyStatic, dynamic |-> NoDyn],
                        EmptyNode >>
          /\ idx' = 2
          /\ last' = [NoCall EXCEPT !.op = "new"]
  /\ UNCHANGED <<registered, metadataCache, nextInst, ncalls>>

\* constructor, lines 63-84: the two checks and the root node.
Construct(rs) ==
  /\ phase = "new"
  /\ routes' = rs
  /\ IF Len(rs) = 0
       THEN /\ phase' = "failed"
            /\ last' = [NoCall EXCEPT !.op = "new", !.err = "NoRoutes"]
            /\ UNCHANGED <<idx, tree>>
     ELSE IF rs[1].path # RootPath
       THEN /\ phase' = "failed"
            /\ last' = [NoCall EXCEPT !.op = "new", !.err = "FirstNotRoot"]
            /\ UNCHANGED <<idx, tree>>
     ELSE /\ phase' = "adding"
          /\ tree' = << [node |-> rs[1], static |-> EmptyStatic, dynamic |-> NoDyn],
                        EmptyNode >>
          /\ idx' = 2
          /\ last' = [NoCall EXCEPT !.op = "new"]
  /\ UNCHANGED <<registered, metadataCache, listeners, nextInst, ncalls>>

\* constructor, lines 86-88: one turn of the loop over routes.slice(1).
AddRoute ==
  /\ phase = "adding"
  /\ idx <= Len(routes)
  /\ LET r == AddRouteToTree(tree, routes[idx])
     IN /\ tree' = r.tree
        /\ IF r.err # ""
             THEN /\ phase' = "failed"
                  /\ last' = [NoCall EXCEPT !.op = "add", !.route = routes[idx],
                                            !.err = r.err]
                  /\ idx' = idx
             ELSE /\ phase' = "adding"
                  /\ last' = [NoCall EXCEPT !.op = "add", !.route = routes[idx]]
                  /\ idx' = idx + 1
  /\ UNCHANGED <<routes, registered, metadataCache, listeners, nextInst, ncalls>>

\* constructor, lines 90-94: the registered set and the popstate listener.
FinishConstruct ==
  /\ phase = "adding"
  /\ idx > Len(routes)
  /\ phase' = "ready"
  /\ registered' = {routes[k] : k \in 1..Len(routes)}
  /\ listeners' = listeners \cup {"onPopstate"}
  /\ last' = [NoCall EXCEPT !.op = "constructed"]
  /\ UNCHANGED <<routes, idx, tree, metadataCache, nextInst, ncalls>>

\* What a call of find(path) leaves in the router's variables.
FindEffect(f) ==
  /\ metadataCache' = f.cache
  /\ nextInst' = IF f.calls # <<>> /\ f.result # FalsyMeta
                   THEN nextInst + 1 ELSE nextInst

\* What a call of find(path) leaves in `last`.
FindRecord(op, path, f) ==
  [op |-> op, path |-> path, route |-> f.route, params |-> f.params,
   result |-> f.result, calls |-> f.calls, hit |-> f.hit, matched |-> f.matched,
   url |-> <<>>, err |-> f.err]

\* router.find(path)
FindCall(path) ==
  /\ phase = "ready"
  /\ ncalls < MaxCalls
  /\ ncalls' = ncalls + 1
  /\ LET f == Find(tree, metadataCache, path, nextInst)
     IN /\ FindEffect(f)
        /\ last' = FindRecord("find", path, f)
  /\ UNCHANGED <<phase, routes, idx, tree, registered, listeners>>

\* router.current() when the window API reports pathname: find, and the
\* no-route error when the result is falsy.
Current(pathname) ==
  /\ phase = "ready"
  /\ ncalls < MaxCalls
  /\ ncalls' = ncalls + 1
  /\ LET f == Find(tree, metadataCache, pathname, nextInst)
     IN /\ FindEffect(f)
        /\ last' = [FindRecord("current", pathname, f) EXCEPT
                      !.err = IF f.err # "" THEN f.err
                              ELSE IF ~Truthy(f.result) THEN "NoRouteFound"
                              ELSE ""]
  /\ UNCHANGED <<phase, routes, idx, tree, registered, listeners>>

\* router.url(route, params), on a constructed router, cleaned up or not. url
\* changes nothing in the router, so a run is followed with url as its last
\* call only.
UrlCall(route, params) ==
  /\ phase \in {"ready", "cleaned"}
  /\ ncalls < MaxCalls
  /\ ncalls' = MaxCalls
  /\ LET u == Url(registered, route, params)
     IN last' = [NoCall EXCEPT !.op = "url", !.route = route, !.params = params,
                               !.url = u.url, !.err = u.err, !.path = u.name,
                               !.about = u.about]
  /\ UNCHANGED <<phase, routes, idx, tree, registered, metadataCache, listeners,
                 nextInst>>

\* Route objects url may be handed: the registered ones, and another object
\* with the root route's path and factory that was never registered.
UrlRoutes ==
  registered \cup { [routes[1] EXCEPT !.oid = MaxRoutes + 1] }

Next ==
  \/ (phase = "new" /\ UNCHANGED <<pvars, nvars, ovars>> /\ \E rs \in RouteLists : Construct(rs))
  \/ (AddRoute /\ UNCHANGED <<pvars, nvars, ovars>>)
  \/ (FinishConstruct /\ UNCHANGED <<pvars, nvars, ovars>>)
  \/ (phase = "ready" /\ UNCHANGED <<pvars, nvars, ovars>> /\ \E path \in Paths : FindCall(path))
  \/ (phase = "ready" /\ UNCHANGED <<pvars, nvars, ovars>>
        /\ \E pathname \in WindowPaths : Current(pathname))
  \/ (phase = "ready" /\ UNCHANGED <<pvars, nvars, ovars>>
        /\ \E route \in UrlRoutes :
              \E params \in ParamObjectsFor(route) : UrlCall(route, params))

\* The Router's fields and the engine's together.
allVars == <<vars, pvars, nvars, ovars>>

Spec == Init /\ [][Next]_allVars

(***************************************************************************)
(* The subscribers (callbackSet.ts) and what their callbacks do to the     *)
(* router while they are called.                                           *)
(***************************************************************************)
\* callbackSet.ts, add: `reference`, a new function for every registration.
Reference(rid, cb) == [rid |-> rid, cb |-> cb]

\* callbackSet.ts, add: set.add(reference)
SetAdd(set, reference) == Append(set, reference)

\* callbackSet.ts, the function add returns: set.delete(reference)
SetDelete(set, rid) == SelectSeq(set, LAMBDA r : r.rid # rid)

\* Mutant of ArrayFrom: forEach runs over the set itself, which visits the
\* entries added meanwhile.
ArrayFrom_Live(set, now) == now

\* callbackSet.ts, call: `copy`, the entries forEach visits when the set was
\* `set` at the start of the call and is `now`.
ArrayFrom(set, now) == set

\* The callbacks subscribed: one that returns, one that throws, a one-shot
\* one that subscribes a callback of the first kind, one that calls the
\* unsubscribe function last handed out and not yet called, and one that
\* calls router.cleanup().
Callbacks == {"returns", "throws", "adds", "unsubscribes", "cleans"}

\* The fields a callback can change, as they are now.
NavNow ==
  [subs |-> subscribers, nextReg |-> nextReg, addsDone |-> addsDone,
   unsub |-> unsubscribed, phase |-> phase, listeners |-> listeners,
   registered |-> registered, cache |-> metadataCache, tree |-> tree,
   nextInst |-> nextInst, log |-> navLog, threw |-> ""]

\* current(), lines 163-170, once its find has given f: it throws when find
\* returned nothing.
CurrentFrom(st, f) ==
  [ok |-> f.err = "" /\ Truthy(f.result),
   result |-> f.result,
   st |-> [st EXCEPT !.cache = f.cache,
                     !.nextInst = IF f.calls # <<>> /\ f.result # FalsyMeta
                                    THEN @ + 1 ELSE @]]

\* current(), lines 163-170, when the window is at pathname.
CurrentIn(st, pathname) ==
  CurrentFrom(st, Find(st.tree, st.cache, pathname, st.nextInst))

\* Mutant of CleanupIn: the popstate listener stays registered.
CleanupIn_KeepListener(st) ==
  [st EXCEPT !.phase = "cleaned",
             !.subs = <<>>,
             !.registered = {},
             !.cache = [k \in {} |-> NullMeta],
             !.tree = << EmptyNode, @[Foreign] >>]

\* cleanup(), lines 97-103: the listener is removed, the subscribers, the
\* registered set and the metadata cache are cleared and the tree is a fresh
\* empty node.
CleanupIn(st) ==
  [st EXCEPT !.phase = "cleaned",
             !.listeners = @ \ {"onPopstate"},
             !.subs = <<>>,
             !.registered = {},
             !.cache = [k \in {} |-> NullMeta],
             !.tree = << EmptyNode, @[Foreign] >>]

\* The unsubscribe function a callback holds: the last one handed out that
\* was not called yet, 0 when there is none.
HeldHandle(st) ==
  LET open == handles \ st.unsub
  IN IF open = {} THEN 0 ELSE CHOOSE r \in open : \A q \in open : q <= r

\* onNavigate called by a callback, after the new callback (one that just
\* returns) was added as registration rid and current() gave c.
AddedBy(rid, c) ==
  IF ~c.ok THEN [c.st EXCEPT !.threw = "NoRouteFound"]
  ELSE [c.st EXCEPT !.log =
          Append(@, [rid |-> rid, cb |-> "returns", arg |-> c.result,
                     by |-> "onNavigate",
                     cleaned |-> c.st.phase = "cleaned"])]

\* One invocation of a callback with metadata arg, and what the callback
\* does; `by` names the caller.
InvokeCallback(st, reference, arg, pathname, by) ==
  LET st1 == [st EXCEPT !.log = Append(@, [rid |-> reference.rid,
                                            cb |-> reference.cb,
                                            arg |-> arg, by |-> by,
                                            cleaned |-> st.phase = "cleaned"])]
  IN CASE reference.cb = "returns" -> st1
       [] reference.cb = "throws" -> [st1 EXCEPT !.threw = "CallbackThrew"]
       [] reference.cb = "cleans" -> CleanupIn(st1)
       [] reference.cb = "unsubscribes" ->
            IF HeldHandle(st1) = 0 THEN st1
            ELSE [st1 EXCEPT !.subs = SetDelete(@, HeldHandle(st1)),
                             !.unsub = @ \cup {HeldHandle(st1)}]
       [] reference.cb = "adds" ->
            IF st1.addsDone THEN st1
            ELSE AddedBy(st1.nextReg,
                         CurrentIn([st1 EXCEPT
                                      !.addsDone = TRUE,
                                      !.subs = SetAdd(@, Reference(st1.nextReg,
                                                                   "returns")),
                                      !.nextReg = @ + 1], pathname))

\* The fields a callback can change, assigned.
Commit(st) ==
  /\ subscribers' = st.subs
  /\ nextReg' = st.nextReg
  /\ addsDone' = st.addsDone
  /\ unsubscribed' = st.unsub
  /\ phase' = st.phase
  /\ listeners' = st.listeners
  /\ registered' = st.registered
  /\ metadataCache' = st.cache
  /\ tree' = st.tree
  /\ nextInst' = st.nextInst
  /\ navLog' = st.log

(***************************************************************************)
(* The Router built from routes with several parameters, url called on it, *)
(* before and after cleanup.                                               *)
(***************************************************************************)
\* router.cleanup() called between two operations.
Cleanup ==
  /\ phase \in {"ready", "cleaned"}
  /\ navPc = "idle"
  /\ Commit(CleanupIn(NavNow))
  /\ last' = [NoCall EXCEPT !.op = "cleanup"]
  /\ UNCHANGED <<routes, idx, ncalls, windowKind, windowPath, handles, navPc,
                 callCopy, callPos, callArg, callThrew, navStart>>

\* Patterns with two parameters: "/u/:i", "/u/:i?/m", "/u/:i?/:j" (a required
\* parameter after an optional one), "/:j/:i?" and "/:i?/:j?".
UrlPatterns ==
  { <<"/", "u", "/", ":", "i">>,
    <<"/", "u", "/", ":", "i", "?", "/", "m">>,
    <<"/", "u", "/", ":", "i", "?", "/", ":", "j">>,
    <<"/", ":", "j", "/", ":", "i", "?">>,
    <<"/", ":", "i", "?", "/", ":", "j", "?">> }

\* Route lists: the root route alone, or followed by one or two routes.
UrlRouteLists ==
  { << RouteObject(1, RootPath, FALSE) >> }
  \cup { << RouteObject(1, RootPath, FALSE), RouteObject(2, p, FALSE) >> :
           p \in UrlPatterns }
  \cup { << RouteObject(1, RootPath, FALSE), RouteObject(2, pq[1], FALSE),
            RouteObject(3, pq[2], FALSE) >> :
           pq \in { x \in UrlPatterns \X UrlPatterns : x[1] # x[2] } }

\* Parameter objects: each of i and j left out, empty, or "7".
UrlParamObjects ==
  UNION { [names -> {<<>>, <<"7">>}] : names \in SUBSET {<<"i">>, <<"j">>} }

\* Route objects url is handed: those of the constructor's list, and for each
\* of them another object with the same path that was never in a list.
UrlRouteObjects ==
  {routes[k] : k \in 1..Len(routes)}
  \cup {[routes[k] EXCEPT !.oid = MaxRoutes + 1] : k \in 1..Len(routes)}

UrlNext ==
  \/ (phase = "new" /\ UNCHANGED <<pvars, nvars, ovars>> /\ \E rs \in UrlRouteLists : Construct(rs))
  \/ (AddRoute /\ UNCHANGED <<pvars, nvars, ovars>>)
  \/ (FinishConstruct /\ UNCHANGED <<pvars, nvars, ovars>>)
  \/ (Cleanup /\ UNCHANGED <<pvars, ovars>>)
  \/ (phase \in {"ready", "cleaned"} /\ UNCHANGED <<pvars, nvars, ovars>>
        /\ \E route \in UrlRouteObjects :
              \E params \in UrlParamObjects : UrlCall(route, params))

UrlSpec == Init /\ [][UrlNext]_allVars

(***************************************************************************)
(* Navigation: onNavigate, navigate, popstate events and cleanup, with the *)
(* subscribers' callbacks acting on the router while they are called.      *)
(***************************************************************************)
\* onNavigate(callback), lines 157-161: the callback is added, then called
\* with current(); the caller gets the unsubscribe function when both return.
OnNavigate(cb) ==
  /\ phase \in {"ready", "cleaned"}
  /\ navPc = "idle"
  /\ nextReg <= MaxSubs
  /\ \E reference \in {Reference(nextReg, cb)} :
     \E c \in {CurrentIn([NavNow EXCEPT !.subs = SetAdd(@, reference),
                                        !.nextReg = @ + 1,
                                        !.log = <<>>], windowPath)} :
     \E st \in {IF ~c.ok THEN [c.st EXCEPT !.threw = "NoRouteFound"]
                ELSE InvokeCallback(c.st, reference, c.result, windowPath,
                                    "onNavigate")} :
        /\ Commit(st)
        /\ handles' = IF st.threw # "" THEN handles ELSE handles \cup {nextReg}
        /\ last' = [NoCall EXCEPT !.op = "onNavigate", !.path = windowPath,
                                  !.result = c.result, !.err = st.threw]
  /\ navStart' = subscribers
  /\ UNCHANGED <<routes, idx, ncalls, windowKind, windowPath, navPc, callCopy,
                 callPos, callArg, callThrew>>

\* The function onNavigate returned, called by its holder.
Unsubscribe(rid) ==
  /\ navPc = "idle"
  /\ rid \in handles \ unsubscribed
  /\ subscribers' = SetDelete(subscribers, rid)
  /\ unsubscribed' = unsubscribed \cup {rid}
  /\ last' = [NoCall EXCEPT !.op = "unsubscribe"]
  /\ UNCHANGED <<phase, routes, idx, tree, registered, metadataCache, listeners,
                 nextInst, ncalls, windowKind, windowPath, nextReg, addsDone,
                 handles, navPc, callCopy, callPos, callArg, callThrew,
                 navStart, navLog>>

\* this.subscribers.call(c) up to the first callback, c being what current()
\* gave: the copy of the set, or the error current() threw.
BeginWith(c, pc) ==
  IF c.ok
    THEN [st |-> c.st, pc |-> pc, copy |-> c.st.subs, arg |-> c.result,
          err |-> ""]
    ELSE [st |-> c.st, pc |-> "idle", copy |-> <<>>, arg |-> NullMeta,
          err |-> "NoRouteFound"]

\* this.subscribers.call(this.current()) up to the first callback.
BeginCall(st, pathname, pc) == BeginWith(CurrentIn(st, pathname), pc)

\* Whether windowAPI.navigate dispatches a popstate event that reaches
\* onPopstate: BrowserWindowAPI does, lines 48-51.
Dispatches == windowKind = "browser" /\ "onPopstate" \in listeners

\* navigate(path), lines 177-180, up to the first callback: the window moves
\* to path; BrowserWindowAPI dispatches popstate, whose listener calls the
\* subscribers (an error thrown inside the listener does not reach navigate);
\* then navigate calls the subscribers itself.
Navigate(path) ==
  /\ phase \in {"ready", "cleaned"}
  /\ navPc = "idle"
  /\ ncalls < MaxCalls
  /\ ncalls' = ncalls + 1
  /\ windowPath' = path
  /\ navStart' = subscribers
  /\ \E b1 \in {BeginCall([NavNow EXCEPT !.log = <<>>], path,
                            IF Dispatches THEN "navPopstate" ELSE "navigate")} :
     \E b \in {IF Dispatches /\ b1.pc = "idle"
                 THEN BeginCall(b1.st, path, "navigate") ELSE b1} :
        /\ Commit(b.st)
        /\ navPc' = b.pc
        /\ callCopy' = b.copy
        /\ callArg' = b.arg
        /\ last' = [NoCall EXCEPT !.op = IF b.pc = "idle" THEN "navigate" ELSE "call",
                                  !.path = path, !.err = b.err]
  /\ callPos' = 1
  /\ callThrew' = FALSE
  /\ UNCHANGED <<routes, idx, windowKind, handles>>

\* A popstate event from the browser (back, forward) that leaves the window
\* at path: onPopstate, lines 105-107, when it is still registered.
Popstate(path) ==
  /\ phase \in {"ready", "cleaned"}
  /\ navPc = "idle"
  /\ ncalls < MaxCalls
  /\ ncalls' = ncalls + 1
  /\ windowPath' = path
  /\ navStart' = subscribers
  /\ \E st0 \in {[NavNow EXCEPT !.log = <<>>]} :
     \E b \in {IF "onPopstate" \in listeners
                 THEN BeginCall(st0, path, "popstate")
                 ELSE [st |-> st0, pc |-> "idle", copy |-> <<>>,
                       arg |-> NullMeta, err |-> ""]} :
        /\ Commit(b.st)
        /\ navPc' = b.pc
        /\ callCopy' = b.copy
        /\ callArg' = b.arg
        /\ last' = [NoCall EXCEPT !.op = IF b.pc = "idle" THEN "popstate" ELSE "call",
                                  !.path = path]
  /\ callPos' = 1
  /\ callThrew' = FALSE
  /\ UNCHANGED <<routes, idx, windowKind, handles>>

\* callbackSet.ts, call: the entries forEach goes through.
Visited == ArrayFrom(callCopy, subscribers)

\* callbackSet.ts, call: one turn of copy.forEach.
InvokeNext ==
  /\ navPc # "idle"
  /\ ~callThrew
  /\ callPos <= Len(Visited)
  /\ \E st \in {InvokeCallback(NavNow, Visited[callPos], callArg,
                                windowPath, navPc)} :
        /\ Commit(st)
        /\ callThrew' = (st.threw # "")
  /\ callPos' = callPos + 1
  /\ UNCHANGED <<routes, idx, ncalls, last, windowKind, windowPath, handles,
                 navPc, callCopy, callArg, navStart>>

\* callbackSet.ts, call: forEach is over, or was left by a callback's error.
\* The call made by the popstate listener inside navigate is followed by
\* navigate's own call, whether it returned or threw.
Return ==
  /\ navPc # "idle"
  /\ callThrew \/ callPos > Len(Visited)
  /\ IF navPc = "navPopstate"
       THEN \E b \in {BeginCall(NavNow, windowPath, "navigate")} :
               /\ Commit(b.st)
               /\ navPc' = b.pc
               /\ callCopy' = b.copy
               /\ callArg' = b.arg
               /\ last' = [last EXCEPT !.op = IF b.pc = "idle" THEN "navigate" ELSE "call",
                                       !.err = b.err]
       ELSE /\ navPc' = "idle"
            /\ last' = [last EXCEPT !.op = navPc,
                                    !.err = IF callThrew /\ navPc = "navigate"
                                              THEN "CallbackThrew" ELSE ""]
            /\ UNCHANGED <<phase, tree, registered, metadataCache, listeners,
                           nextInst, subscribers, nextReg, addsDone,
                           unsubscribed, navLog, callCopy, callArg>>
  /\ callPos' = 1
  /\ callThrew' = FALSE
  /\ UNCHANGED <<routes, idx, ncalls, windowKind, windowPath, handles, navStart>>

\* Route lists of the navigation runs: the root route, alone or with "/u".
NavRouteLists ==
  { << RouteObject(1, RootPath, FALSE) >>,
    << RouteObject(1, RootPath, FALSE), RouteObject(2, <<"/", "u">>, FALSE) >> }

\* Where the window goes.
NavPaths == { RootPath, <<"/", "u">> }

NavNext ==
  \/ (phase = "new" /\ UNCHANGED <<pvars, ovars>>
        /\ \E rs \in NavRouteLists : \E kind \in {"browser", "plain"} :
              /\ Construct(rs)
              /\ windowKind' = kind
              /\ UNCHANGED <<windowPath, subscribers, nextReg, addsDone, handles,
                             unsubscribed, navPc, callCopy, callPos, callArg,
                             callThrew, navStart, navLog>>)
  \/ (AddRoute /\ UNCHANGED <<pvars, nvars, ovars>>)
  \/ (FinishConstruct /\ UNCHANGED <<pvars, nvars, ovars>>)
  \/ (UNCHANGED <<pvars, ovars>> /\ \E cb \in Callbacks : OnNavigate(cb))
  \/ (UNCHANGED <<pvars, ovars>> /\ \E rid \in handles : Unsubscribe(rid))
  \/ (UNCHANGED <<pvars, ovars>> /\ \E path \in NavPaths : Navigate(path))
  \/ (UNCHANGED <<pvars, ovars>> /\ \E path \in NavPaths : Popstate(path))
  \/ (InvokeNext /\ UNCHANGED <<pvars, ovars>>)
  \/ (Return /\ UNCHANGED <<pvars, ovars>>)
  \/ (Cleanup /\ UNCHANGED <<pvars, ovars>>)

NavSpec == Init /\ [][NavNext]_allVars

\* call is synchronous: forEach goes on to the next callback as soon as one
\* returns, and call returns (or throws) when forEach is left.
NavFairSpec ==
  /\ NavSpec
  /\ WF_allVars(InvokeNext /\ UNCHANGED <<pvars, ovars>>)
  /\ WF_allVars(Return /\ UNCHANGED <<pvars, ovars>>)

(***************************************************************************)
(* The dispatcher: Use, ServeHTTP, AuthMiddleware and RequireAuth.         *)
(***************************************************************************)
\* The middlewares handed to Use: one that calls next and returns what it
\* returns, one that returns a RATE_LIMITED error without calling next, and
\* AuthMiddleware(validate) for two validate functions.
MiddlewareKinds == {"pass", "stop", "authA", "authB"}

\* validate(r) of the two AuthMiddlewares: each returns its own token (1, 2)
\* when the request carries its credential, nil (0) otherwise.
Validate(kind, r) ==
  IF kind = "authA" THEN (IF r.credA THEN 1 ELSE 0)
  ELSE (IF r.credB THEN 2 ELSE 0)

\* The handlers registered: d.Unary["U"] = handler, d.Unary["P"] =
\* RequireAuth(handler), d.Streaming["S"]; no other method is registered.
UnaryMethods == {"U", "P"}
StreamingMethods == {"S"}

\* Mutant of Wrap: the wrapping loop runs from the first middleware to the
\* last.
RECURSIVE Wrap_Ascending(_, _, _)
Wrap_Ascending(ms, i, handler) ==
  IF i = 0 THEN handler
  ELSE Wrap_Ascending(ms, i - 1,
         <<[m |-> Len(ms) + 1 - i, kind |-> ms[Len(ms) + 1 - i]]>> \o handler)

\* ServeHTTP, lines 84-86: for i := len(d.middlewares)-1; i >= 0; i--
\* { handler = d.middlewares[i](handler) }, the handler written as the list
\* of what a request goes through; i counts the middlewares left to wrap.
RECURSIVE Wrap(_, _, _)
Wrap(ms, i, handler) ==
  IF i = 0 THEN handler
  ELSE Wrap(ms, i - 1, <<[m |-> i, kind |-> ms[i]]>> \o handler)

\* httpStatusForCode, message_reader.go 112-129.
HttpStatusForCode(code) ==
  CASE code = "VALIDATION" -> 400
    [] code = "NOT_FOUND" -> 404
    [] code = "ALREADY_EXISTS" -> 409
    [] code = "UNAUTHENTICATED" -> 401
    [] code = "PERMISSION_DENIED" -> 403
    [] code = "RATE_LIMITED" -> 429
    [] OTHER -> 500

\* Mutant of RequireAuth: the handler is called whatever the context holds.
RequireAuth_NoCheck(token) == [err |-> "", invoked |-> TRUE]

\* RequireAuth(handler), part_018 40-47: the error when GetAuthToken(r) is
\* nil, the wrapped handler's call otherwise.
RequireAuth(token) ==
  IF token = 0 THEN [err |-> "UNAUTHENTICATED", invoked |-> FALSE]
  ELSE [err |-> "", invoked |-> TRUE]

\* One thing a request went through: middleware number m (in the order of
\* Use), the base handler, RequireAuth's check, a registered handler.
Ran(what, m) == [what |-> what, m |-> m]

\* d.Use(m), lines 63-65.
Use(m) ==
  /\ dpc = "setup"
  /\ Len(middlewares) < MaxMiddlewares
  /\ middlewares' = Append(middlewares, m)
  /\ UNCHANGED <<dpc, request, chain, chainPos, ctxToken, validated, ran,
                 rpcErr, status>>

\* ServeHTTP, lines 68-109, up to the call of the wrapped handler: a
\* preflight request is answered 200 and a request whose body cannot be read
\* 400, both without calling it.
ServeHTTP(r) ==
  /\ dpc \in {"setup", "served"}
  /\ request' = r
  /\ chain' = Wrap(middlewares, Len(middlewares), <<>>)
  /\ chainPos' = 1
  /\ ctxToken' = 0
  /\ validated' = -1
  /\ ran' = <<>>
  /\ IF r.http = "OPTIONS"
       THEN dpc' = "served" /\ status' = 200 /\ rpcErr' = ""
     ELSE IF ~r.bodyOk
       THEN dpc' = "served" /\ status' = HttpStatusForCode("VALIDATION")
            /\ rpcErr' = "VALIDATION"
     ELSE dpc' = "chain" /\ status' = 0 /\ rpcErr' = ""
  /\ UNCHANGED middlewares

\* The request enters the next middleware of the chain. AuthMiddleware,
\* part_018 27-36: the token validate returned is stored in the context when
\* it is not nil, and next is called.
EnterMiddleware ==
  /\ dpc = "chain"
  /\ chainPos <= Len(chain)
  /\ LET mw == chain[chainPos]
     IN /\ ran' = Append(ran, Ran("middleware", mw.m))
        /\ CASE mw.kind = "pass" ->
                  /\ chainPos' = chainPos + 1
                  /\ UNCHANGED <<dpc, ctxToken, validated, rpcErr>>
             [] mw.kind = "stop" ->
                  /\ dpc' = "respond"
                  /\ rpcErr' = "RATE_LIMITED"
                  /\ UNCHANGED <<chainPos, ctxToken, validated>>
             [] OTHER ->
                  /\ validated' = Validate(mw.kind, request)
                  /\ ctxToken' = IF Validate(mw.kind, request) # 0
                                   THEN Validate(mw.kind, request) ELSE ctxToken
                  /\ chainPos' = chainPos + 1
                  /\ UNCHANGED <<dpc, rpcErr>>
  /\ UNCHANGED <<middlewares, request, chain, status>>

\* The base handler, lines 69-81: the streaming handler of the method, else
\* its unary handler, else the NOT_FOUND error.
BaseHandler ==
  /\ dpc = "chain"
  /\ chainPos > Len(chain)
  /\ dpc' = "respond"
  /\ IF request.method \in StreamingMethods
       THEN /\ ran' = ran \o <<Ran("base", 0), Ran("stream", 0)>>
            /\ rpcErr' = ""
     ELSE IF request.method = "P"
       THEN /\ ran' = ran \o <<Ran("base", 0), Ran("RequireAuth", 0)>>
                       \o (IF RequireAuth(ctxToken).invoked
                             THEN <<Ran("handler", 0)>> ELSE <<>>)
            /\ rpcErr' = RequireAuth(ctxToken).err
     ELSE IF request.method \in UnaryMethods
       THEN /\ ran' = ran \o <<Ran("base", 0), Ran("handler", 0)>>
            /\ rpcErr' = ""
     ELSE /\ ran' = Append(ran, Ran("base", 0))
          /\ rpcErr' = "NOT_FOUND"
  /\ UNCHANGED <<middlewares, request, chain, chainPos, ctxToken, validated,
                 status>>

\* ServeHTTP, lines 111-129: the error written with its status, or 200.
Respond ==
  /\ dpc = "respond"
  /\ dpc' = "served"
  /\ status' = IF rpcErr # "" THEN HttpStatusForCode(rpcErr) ELSE 200
  /\ UNCHANGED <<middlewares, request, chain, chainPos, ctxToken, validated,
                 ran, rpcErr>>

\* The requests served.
Requests ==
  [http : {"POST", "OPTIONS"}, method : {"U", "P", "S", "X"},
   credA : BOOLEAN, credB : BOOLEAN, bodyOk : BOOLEAN]

DispatchNext ==
  \/ (UNCHANGED <<vars, pvars, nvars, cvars, fvars, xvars>> /\ \E m \in MiddlewareKinds : Use(m))
  \/ (UNCHANGED <<vars, pvars, nvars, cvars, fvars, xvars>> /\ \E r \in Requests : ServeHTTP(r))
  \/ (EnterMiddleware /\ UNCHANGED <<vars, pvars, nvars, cvars, fvars, xvars>>)
  \/ (BaseHandler /\ UNCHANGED <<vars, pvars, nvars, cvars, fvars, xvars>>)
  \/ (Respond /\ UNCHANGED <<vars, pvars, nvars, cvars, fvars, xvars>>)

DispatchSpec == Init /\ [][DispatchNext]_allVars

(***************************************************************************)
(* gapp codegen: HashFile, ReadStoredHash, WriteHash and RunCodegen.       *)
(***************************************************************************)
\* The contents the proto file takes.
ProtoContents == {1, 2}

\* HashFile, part_005 147-154: the hex SHA-256 of the contents, a non-empty
\* text that differs for different contents.
HashFile(content) == IF content = 1 THEN "sha-1" ELSE "sha-2"

\* ReadStoredHash, part_005 157-163: the file's contents, "" when it cannot
\* be read.
ReadStoredHash(file) == IF file.exists THEN file.data ELSE ""

\* WriteHash, part_005 166-172, when it succeeds: the file holds the hash.
WriteHash(file, hash) == [exists |-> TRUE, data |-> hash]

\* RunCodegen, part_007 74-87: whether the run returns before generating.
Skips(force, file, content) ==
  ~force /\ HashFile(content) = ReadStoredHash(file)

\* The proto file is edited between two runs.
EditProto(content) ==
  /\ cgPc = "idle"
  /\ content # protoContent
  /\ protoContent' = content
  /\ cgResult' = "edited"
  /\ UNCHANGED <<hashFile, outputs, cgPc, cgForce, storedAtStart, readBack>>

\* codegen.WriteHash(dir, h) followed by codegen.ReadStoredHash(dir), as the
\* test calls them; WriteHash may fail and leave the file as it was.
WriteThenRead(hash, written) ==
  /\ cgPc = "idle"
  /\ hashFile' = IF written THEN WriteHash(hashFile, hash) ELSE hashFile
  /\ readBack' = ReadStoredHash(hashFile')
  /\ cgResult' = IF written THEN "written" ELSE "notwritten"
  /\ UNCHANGED <<protoContent, outputs, cgPc, cgForce, storedAtStart>>

\* RunCodegen, part_007 40-92, up to the first generation step.
RunCodegen(force) ==
  /\ cgPc = "idle"
  /\ cgForce' = force
  /\ storedAtStart' = ReadStoredHash(hashFile)
  /\ readBack' = ReadStoredHash(hashFile)
  /\ IF Skips(force, hashFile, protoContent)
       THEN cgPc' = "idle" /\ cgResult' = "skipped"
       ELSE cgPc' = "compile" /\ cgResult' = "running"
  /\ UNCHANGED <<protoContent, hashFile, outputs>>

\* Step 1, part_007 94-100: CompileProto, which writes nothing.
CompileProto(ok) ==
  /\ cgPc = "compile"
  /\ IF ok THEN cgPc' = "go" /\ cgResult' = cgResult
     ELSE cgPc' = "idle" /\ cgResult' = "failed"
  /\ UNCHANGED <<protoContent, hashFile, outputs, cgForce, storedAtStart,
                 readBack>>

\* The step after a generation step.
StepAfter(pc) ==
  CASE pc = "go" -> "ts" [] pc = "ts" -> "preload" [] OTHER -> "hash"

\* Steps 2 to 4, part_007 102-154: the output is generated and written. A step
\* fails before writing (how = "failed"), while writing, which leaves the
\* output broken (how = "broken"), or succeeds.
Generate(how) ==
  /\ cgPc \in {"go", "ts", "preload"}
  /\ outputs' = [outputs EXCEPT ![cgPc] =
                   CASE how = "ok" -> protoContent
                     [] how = "broken" -> -1
                     [] OTHER -> @]
  /\ IF how = "ok" THEN cgPc' = StepAfter(cgPc) /\ cgResult' = cgResult
     ELSE cgPc' = "idle" /\ cgResult' = "failed"
  /\ UNCHANGED <<protoContent, hashFile, cgForce, storedAtStart, readBack>>

\* part_007 156-161: the hash is written after the last step; the error of
\* WriteHash is dropped.
WriteHashStep(written) ==
  /\ cgPc = "hash"
  /\ hashFile' = IF written THEN WriteHash(hashFile, HashFile(protoContent))
                 ELSE hashFile
  /\ cgPc' = "idle"
  /\ cgResult' = "ok"
  /\ UNCHANGED <<protoContent, outputs, cgForce, storedAtStart, readBack>>

\* Hashes handed to WriteHash directly.
Hashes == {"", "sha-1", "sha-2", "other"}

CodegenNext ==
  \/ (UNCHANGED <<vars, pvars, nvars, dvars, fvars, xvars>>
        /\ \E content \in ProtoContents : EditProto(content))
  \/ (UNCHANGED <<vars, pvars, nvars, dvars, fvars, xvars>>
        /\ \E hash \in Hashes : \E written \in BOOLEAN : WriteThenRead(hash, written))
  \/ (UNCHANGED <<vars, pvars, nvars, dvars, fvars, xvars>>
        /\ \E force \in BOOLEAN : RunCodegen(force))
  \/ (UNCHANGED <<vars, pvars, nvars, dvars, fvars, xvars>>
        /\ \E ok \in BOOLEAN : CompileProto(ok))
  \/ (UNCHANGED <<vars, pvars, nvars, dvars, fvars, xvars>>
        /\ \E how \in {"ok", "failed", "broken"} : Generate(how))
  \/ (UNCHANGED <<vars, pvars, nvars, dvars, fvars, xvars>>
        /\ \E written \in BOOLEAN : WriteHashStep(written))

CodegenSpec == Init /\ [][CodegenNext]_allVars

(***************************************************************************)
(* StreamAdapter.Send and MessageReader.Next.                              *)
(***************************************************************************)
\* ByteBase to the power n.
RECURSIVE Pow(_)
Pow(n) == IF n = 0 THEN 1 ELSE ByteBase * Pow(n - 1)

\* uint32(n): n in the width of the prefix.
Uint32(n) == n % Pow(PrefixLen)

\* binary.Write(w, binary.BigEndian, length): the bytes of length, the most
\* significant first.
BigEndianBytes(length) ==
  [k \in 1..PrefixLen |-> (length \div Pow(PrefixLen - k)) % ByteBase]

\* Mutant of BigEndianUint32: the least significant byte first.
RECURSIVE LittleEndianUint32(_)
LittleEndianUint32(bytes) ==
  IF bytes = <<>> THEN 0
  ELSE bytes[1] + ByteBase * LittleEndianUint32(Tail(bytes))

\* binary.BigEndian.Uint32(bytes)
RECURSIVE BigEndianUint32(_)
BigEndianUint32(bytes) ==
  IF bytes = <<>> THEN 0
  ELSE bytes[Len(bytes)]
         + ByteBase * BigEndianUint32(SubSeq(bytes, 1, Len(bytes) - 1))

\* What Send writes for a message, stream.go 35-44: the prefix, then the bytes.
Frame(msg) == BigEndianBytes(Uint32(Len(msg))) \o msg

\* n zero bytes.
Zeros(n) == [k \in 1..n |-> 0]

\* The messages sent: empty, one byte, two bytes, and one whose length is one
\* more than the largest the prefix can hold.
Messages == { <<>>, <<0>>, <<1>>, <<1, 0>>, Zeros(Pow(PrefixLen)) }

\* StreamAdapter.Send(data), stream.go 35-51, on a response that takes every
\* write.
Send(msg) ==
  /\ fpc = "sending"
  /\ Len(sent) < MaxMessages
  /\ sent' = Append(sent, msg)
  /\ wire' = wire \o Frame(msg)
  /\ UNCHANGED <<fpc, data, offset, offsetBefore, got, ferr>>

\* NewMessageReader(data), lines 17-19, on the first n bytes written.
NewMessageReader(n) ==
  /\ fpc = "sending"
  /\ fpc' = "reading"
  /\ data' = SubSeq(wire, 1, n)
  /\ offset' = 0
  /\ UNCHANGED <<sent, wire, offsetBefore, got, ferr>>

\* r.Next(), lines 23-44: the message and the offset after it, or the error.
NextMessage(bytes, off) ==
  LET remaining == SubSeq(bytes, off + 1, Len(bytes))
      length == BigEndianUint32(SubSeq(remaining, 1, PrefixLen))
  IN IF off >= Len(bytes) THEN [err |-> "EOF", msg |-> <<>>, offset |-> off]
     ELSE IF Len(remaining) < PrefixLen
       THEN [err |-> "UnexpectedEOF", msg |-> <<>>, offset |-> off]
     ELSE IF Len(remaining) < PrefixLen + length
       THEN [err |-> "UnexpectedEOF", msg |-> <<>>, offset |-> off]
     ELSE [err |-> "",
           msg |-> SubSeq(remaining, PrefixLen + 1, PrefixLen + length),
           offset |-> off + PrefixLen + length]

\* One call of r.Next().
ReadNext ==
  /\ fpc = "reading"
  /\ LET r == NextMessage(data, offset)
     IN /\ ferr' = r.err
        /\ offset' = r.offset
        /\ got' = IF r.err = "" THEN Append(got, r.msg) ELSE got
  /\ offsetBefore' = offset
  /\ UNCHANGED <<sent, wire, fpc, data>>

FrameNext ==
  \/ (UNCHANGED <<vars, pvars, nvars, dvars, cvars, xvars>>
        /\ \E msg \in Messages : Send(msg))
  \/ (UNCHANGED <<vars, pvars, nvars, dvars, cvars, xvars>>
        /\ \E n \in 0..Len(wire) : NewMessageReader(n))
  \/ (ReadNext /\ UNCHANGED <<vars, pvars, nvars, dvars, cvars, xvars>>)

FrameSpec == Init /\ [][FrameNext]_allVars

(***************************************************************************)
(* createRpcProxy (part_001) and the dispatch to the stores (store.ts).    *)
(***************************************************************************)
\* The client's properties: a unary method, a method listed in
\* streamingMethods, and a property that is not a function.
ClientMethods == {"get", "watch", "baseUrl"}
ProxyPlainProperties == {"baseUrl"}
ProxyStreamingMethods == {"watch"}

\* dispatchSendRpc({method, request}) of call c.
SendEvent(c, method) ==
  [call |-> c, type |-> "send", method |-> method, result |-> "", value |-> ""]

\* dispatchRpc({method, request, result}) of call c: result is "ok" or "err",
\* value names the response or the error it carries.
ResultEvent(c, method, result, value) ==
  [call |-> c, type |-> "result", method |-> method, result |-> result,
   value |-> value]

\* proxy[method] and its call, part_001 10-29, up to the await. A property
\* that is not a function is returned as it is; a streaming method is the
\* client's own, bound. For a unary one the wrapper dispatches the send
\* event and calls the client's method; when a store throws during the
\* dispatch, the wrapper's promise rejects with that error and the client's
\* method is not called.
CallMethod(method, storeThrows) ==
  /\ Len(proxyCalls) < MaxCalls
  /\ LET c == Len(proxyCalls) + 1
     IN IF method \in ProxyPlainProperties
          THEN /\ proxyCalls' = Append(proxyCalls,
                   [method |-> method, pc |-> "read", invoked |-> FALSE,
                    outcome |-> "", got |-> "value"])
               /\ events' = events
        ELSE IF method \in ProxyStreamingMethods
          THEN /\ proxyCalls' = Append(proxyCalls,
                   [method |-> method, pc |-> "streaming", invoked |-> TRUE,
                    outcome |-> "", got |-> "observable"])
               /\ events' = events
          ELSE /\ events' = Append(events, SendEvent(c, method))
               /\ proxyCalls' = Append(proxyCalls,
                   IF storeThrows
                     THEN [method |-> method, pc |-> "done", invoked |-> FALSE,
                           outcome |-> "", got |-> "storeError"]
                     ELSE [method |-> method, pc |-> "awaiting",
                           invoked |-> TRUE, outcome |-> "", got |-> ""])

\* part_001 29-43, after the await, when the client's promise resolved: the ok
\* event is dispatched inside the try block, so a store that throws during it
\* sends the wrapper to the catch block, which dispatches an err event with
\* that error and rethrows it.
Resolved_(c, okThrows, errThrows) ==
  /\ c \in 1..Len(proxyCalls)
  /\ proxyCalls[c].pc = "awaiting"
  /\ events' = events
       \o <<ResultEvent(c, proxyCalls[c].method, "ok", "response")>>
       \o (IF okThrows
             THEN <<ResultEvent(c, proxyCalls[c].method, "err", "storeError")>>
             ELSE <<>>)
  /\ proxyCalls' = [proxyCalls EXCEPT ![c].pc = "done",
                                      ![c].outcome = "resolved",
                                      ![c].got = IF okThrows THEN "storeError"
                                                 ELSE "response"]

\* part_001 36-43, when the client's promise rejected (or the method threw):
\* the err event is dispatched and the error rethrown; a store that throws
\* during the dispatch replaces it.
Rejected_(c, errThrows) ==
  /\ c \in 1..Len(proxyCalls)
  /\ proxyCalls[c].pc = "awaiting"
  /\ events' = Append(events,
                      ResultEvent(c, proxyCalls[c].method, "err", "clientError"))
  /\ proxyCalls' = [proxyCalls EXCEPT ![c].pc = "done",
                                      ![c].outcome = "rejected",
                                      ![c].got = IF errThrows THEN "storeError"
                                                 ELSE "clientError"]

ProxyNext ==
  \/ (UNCHANGED <<vars, pvars, nvars, dvars, cvars, fvars>>
        /\ \E method \in ClientMethods : \E storeThrows \in BOOLEAN :
              CallMethod(method, storeThrows))
  \/ (UNCHANGED <<vars, pvars, nvars, dvars, cvars, fvars>>
        /\ \E c \in 1..Len(proxyCalls) : \E okThrows, errThrows \in BOOLEAN :
              Resolved_(c, okThrows, errThrows))
  \/ (UNCHANGED <<vars, pvars, nvars, dvars, cvars, fvars>>
        /\ \E c \in 1..Len(proxyCalls) : \E errThrows \in BOOLEAN :
              Rejected_(c, errThrows))

ProxySpec == Init /\ [][ProxyNext]_allVars

(***************************************************************************)
(* Vocabulary of the properties.                                           *)
(***************************************************************************)
\* The router's patterns in registration order, as the server is given them.
RoutePatterns == [k \in 1..Len(routes) |-> routes[k].path]

\* A pathname in canonical form: "/", or a leading slash and no empty segment.
Canonical(path) ==
  LET ps == JsSplit(path)
  IN \/ path = RootPath
     \/ /\ Len(ps) >= 2
        /\ ps[1] = <<>>
        /\ \A k \in 2..Len(ps) : ps[k] # <<>>

\* The parameters bound to a value: a name bound to undefined counts as unbound.
DefinedParams(params) ==
  [n \in {k \in DOMAIN params : params[k] # Undefined} |-> params[n]]

\* The pattern has a literal segment that is a property name every static map
\* inherits; the lookup current.static[part] then leaves the trie.
HasProtoLiteral(path) ==
  LET rs == SplitFiltered(path)
  IN \E k \in 1..Len(rs) : rs[k] \in ProtoKeys

\* The key of a pattern segment: the segment without its optional marker.
SegmentKey(part) == IF EndsWith(part, "?") THEN Slice0ToLast(part) ELSE part

\* Two pattern segments name the same trie edge.
SameEdge(a, b) ==
  IF StartsWith(a, ":") THEN StartsWith(b, ":") /\ SegmentKey(a) = SegmentKey(b)
  ELSE a = b

\* The first n segments of two patterns name the same edges.
SamePrefix(ps, qs, n) == \A k \in 1..n : SameEdge(ps[k], qs[k])

\* The segments qs lead to the trie node where the pattern segments ps end (the
\* same segments up to optional markers), or to a node that an optional
\* parameter of ps makes an endpoint.
EndsAtEndpointOfParts(ps, qs) ==
  /\ Len(qs) <= Len(ps)
  /\ SamePrefix(ps, qs, Len(qs))
  /\ Len(qs) < Len(ps) =>
       StartsWith(ps[Len(qs) + 1], ":") /\ EndsWith(ps[Len(qs) + 1], "?")

\* The later pattern q ends at the trie node where the earlier pattern p ends or
\* has the endpoint of an optional parameter; empty segments do not count.
EndsAtEndpointOf(p, q) ==
  EndsAtEndpointOfParts(SplitFiltered(p), SplitFiltered(q))

\* No route before the first occurrence of R in the route list ends, or has the
\* endpoint of an optional parameter, at the node of R's pattern without its
\* last segment.
FirstAtParent(R) ==
  LET rs == SplitFiltered(R.path)
      first == CHOOSE k \in 1..Len(routes) :
                 routes[k] = R /\ \A j \in 1..(k - 1) : routes[j] # R
  IN \A j \in 1..(first - 1) :
       ~EndsAtEndpointOfParts(SplitFiltered(routes[j].path),
                              SubSeq(rs, 1, Len(rs) - 1))

\* The last call was find or current, and it resolved the path without the cache.
Resolved == last.op \in {"find", "current"} /\ last.matched /\ ~last.hit

\* The last call was find or current, and it looked the path up without the cache.
LookedUp == last.op \in {"find", "current"} /\ ~last.hit

DistinctNames(path) ==
  LET rs == SplitFiltered(path)
      dyn == {k \in 1..Len(rs) : StartsWith(rs[k], ":")}
  IN \A j, k \in dyn : ParamName(rs[j]) = ParamName(rs[k]) => j = k

IsStaticPattern(path) ==
  LET rs == SplitFiltered(path)
  IN \A k \in 1..Len(rs) : ~StartsWith(rs[k], ":")

\* C2 (as claimed): find of the path of a registered route without dynamic
\* segments succeeds and returns the value of that route's factory called with {}.
C2_StaticRouteResolves ==
  last.op = "find" =>
    \A R \in registered :
      R.path = last.path /\ IsStaticPattern(R.path) =>
        /\ last.matched
        /\ last.result = IF R.falsy THEN FalsyMeta
                         ELSE [oid |-> R.oid, params |-> EmptyParams,
                               inst |-> last.result.inst]
        /\ ~last.hit => last.calls = <<[oid |-> R.oid, params |-> EmptyParams]>>

(***************************************************************************)
(* C3                                                                      *)
(***************************************************************************)
\* C3 (as claimed): a find of a pathname that an earlier find resolved returns
\* the Metadata the first call returned, from the cache, with no factory call.
C3_SecondFindFromCache ==
  [][ \A p \in Paths :
        ( /\ phase = "ready"
          /\ p \in DOMAIN metadataCache
          /\ ncalls' = ncalls + 1
          /\ last'.op = "find"
          /\ last'.path = p )
        => ( /\ last'.calls = <<>>
             /\ last'.result = metadataCache[p] ) ]_vars

(***************************************************************************)
(* C4                                                                      *)
(***************************************************************************)
\* "/u/:i", the model's /users/:id.
UsersId == <<"/", "u", "/", ":", "i">>

\* The trie node of the literal segment "u" under the root (0 when there is none).
UsersNode ==
  IF tree # <<>> /\ <<"u">> \in DOMAIN tree[1].static
    THEN tree[1].static[<<"u">>] ELSE 0

\* C4 (as claimed): with /u/:i registered and no terminal route at /u, looking up
\* "/u" or "/u/" finds nothing, calls no factory, and current() raises the
\* no-route error.
C4_NoMatchWithoutParam ==
  ( /\ last.op \in {"find", "current"}
    /\ last.path \in { <<"/", "u">>, <<"/", "u", "/">> }
    /\ \E R \in registered : R.path = UsersId
    /\ UsersNode # 0
    /\ tree[UsersNode].node = NoRoute )
  => ( /\ ~last.matched
       /\ last.result = NullMeta
       /\ last.calls = <<>>
       /\ last.op = "current" => last.err = "NoRouteFound" )

(***************************************************************************)
(* C5, C6                                                                  *)
(***************************************************************************)
\* The dynamic positions of a pattern.
DynamicAt(path) ==
  LET rs == SplitFiltered(path)
  IN {k \in 1..Len(rs) : StartsWith(rs[k], ":")}

\* A pattern with a parameter, all of whose parameters are required.
RequiredOnly(path) ==
  LET rs == SplitFiltered(path)
      dyn == DynamicAt(path)
  IN dyn # {} /\ \A k \in dyn : ~EndsWith(rs[k], "?")

\* A pattern of literals followed by one optional parameter.
TrailingOptional(path) ==
  LET rs == SplitFiltered(path)
  IN /\ Len(rs) >= 1
     /\ DynamicAt(path) = {Len(rs)}
     /\ EndsWith(rs[Len(rs)], "?")

\* The pathname is canonical and supplies, segment by segment, the pattern's
\* literals and a non-empty segment for each of its parameters.
Fits(path, pathname) ==
  LET rs == SplitFiltered(path)
      ps == JsSplit(pathname)
  IN /\ Canonical(pathname)
     /\ Len(ps) = Len(rs) + 1
     /\ \A k \in 1..Len(rs) :
          IF StartsWith(rs[k], ":") THEN ps[k + 1] # <<>> ELSE ps[k + 1] = rs[k]

\* The pathname is canonical and is the pattern without its last segment.
FitsParent(path, pathname) ==
  LET rs == SplitFiltered(path)
      ps == JsSplit(pathname)
  IN /\ Canonical(pathname)
     /\ Len(ps) = Len(rs)
     /\ \A k \in 1..(Len(rs) - 1) : ps[k + 1] = rs[k]

\* Each parameter of the pattern bound to the pathname's segment at its position
\* (undefined past the pathname's end; the last position of a name used twice).
ExpectedParams(path, pathname) ==
  LET rs == SplitFiltered(path)
      ps == JsSplit(pathname)
  IN [n \in {ParamName(rs[k]) : k \in DynamicAt(path)} |->
        LET k == CHOOSE j \in DynamicAt(path) :
                   /\ ParamName(rs[j]) = n
                   /\ \A i \in DynamicAt(path) : ParamName(rs[i]) = n => i <= j
        IN IF k + 1 <= Len(ps) THEN ps[k + 1] ELSE Undefined]

\* The node the first k segments of a registered pattern lead to, along the
\* pattern's own edges.
RECURSIVE RouteNode(_, _, _)
RouteNode(t, rs, k) ==
  IF k = 0 THEN 1
  ELSE LET parent == RouteNode(t, rs, k - 1)
       IN IF StartsWith(rs[k], ":") THEN t[parent].dynamic.value
          ELSE StaticChild(t, parent, rs[k])

\* For no segment the pathname supplies for a parameter does the lookup
\* current.static[segment] find something at that parameter's trie position: the
\* segment is neither the key of a static child nor an inherited property name.
NotShadowed(t, path, pathname) ==
  LET rs == SplitFiltered(path)
      ps == JsSplit(pathname)
  IN \A k \in DynamicAt(path) :
       k + 1 <= Len(ps) =>
         /\ ps[k + 1] \notin DOMAIN t[RouteNode(t, rs, k - 1)].static
         /\ ps[k + 1] \notin ProtoKeys

ProvidedParams(path, params) ==
  LET rs == SplitFiltered(path)
  IN [n \in {ParamName(rs[k]) : k \in DynamicAt(path)} \cap DOMAIN params |-> params[n]]

\* How many of the pattern's segments url emits for these parameters.
EmittedCount(path, params) ==
  Len(UrlParts(SplitFiltered(path), params, 1, <<>>).parts)

\* The parameters whose segment url emits: those of the dynamic segments before
\* the first omitted optional parameter.
EmittedParams(path, params) ==
  LET rs == SplitFiltered(path)
      dyn == {k \in DynamicAt(path) : k <= EmittedCount(path, params)}
  IN [n \in {ParamName(rs[k]) : k \in dyn} |-> params[n]]

\* No parameter value contains a slash.
SlashFree(params) ==
  \A n \in DOMAIN params : \A k \in 1..Len(params[n]) : params[n][k] # "/"

\* The last call was url and it returned a URL.
Built == last.op = "url" /\ last.err = ""

\* The Metadata find returns is the one route's factory returns for the
\* parameters bound to a value.
IsFactoryValue(m, route, bound) ==
  IF route.falsy THEN m = FalsyMeta
  ELSE m # NullMeta /\ m.oid = route.oid /\ DefinedParams(m.params) = bound

NameClash(p, q) ==
  LET ps == SplitFiltered(p)
      qs == SplitFiltered(q)
  IN \E n \in 1..Len(ps) :
       /\ n <= Len(qs)
       /\ SamePrefix(ps, qs, n - 1)
       /\ StartsWith(ps[n], ":") /\ StartsWith(qs[n], ":")
       /\ SegmentKey(ps[n]) # SegmentKey(qs[n])

\* C8: a route list in which two routes put differently named dynamic segments
\* at the same trie position never yields a router: at every step of the
\* constructor and at its end, construction has not got past the later of the
\* two and has not completed, and when it fails at the later one it throws the
\* conflicting-dynamic-segments error.
C8_NameClashThrows ==
  \A j, k \in 1..Len(routes) :
    ( /\ last.op \in {"new", "add", "constructed"}
      /\ j < k
      /\ routes[1].path = RootPath
      /\ NameClash(routes[j].path, routes[k].path) ) =>
      /\ phase # "ready"
      /\ phase = "adding" => idx <= k
      /\ phase = "failed" /\ idx = k => last.err = "ConflictingDynamic"

\* C8 witness: construction failed at the route that clashes with an earlier one.
C8_Witness ==
  /\ phase = "failed"
  /\ last.err = "ConflictingDynamic"
  /\ \E j \in 1..(idx - 1) : NameClash(routes[j].path, routes[idx].path)

\* The constructor is about to add routes[idx].
Adding == phase = "adding" /\ idx <= Len(routes)

\* A terminal route, once set, stays.
TerminalsKept ==
  \A n \in 1..Len(tree) :
    tree[n].node # NoRoute => n <= Len(tree') /\ tree'[n].node = tree[n].node

\* Adding a Route object that was added before leaves the trie unchanged.
SameObjectNoOp ==
  (\E k \in 2..(idx - 1) : routes[k] = routes[idx]) =>
    tree' = tree /\ phase' = "adding"

\* Adding another Route object with the full pattern of one added before throws
\* the conflicting-routes error.
SamePatternThrows ==
  (\E k \in 1..(idx - 1) : routes[k] # routes[idx] /\ routes[k].path = routes[idx].path) =>
    phase' = "failed" /\ last'.err = "ConflictingRoutes"

\* The conflicting-routes error is thrown only for a full pattern added before.
OnlySamePatternThrows ==
  (phase' = "failed" /\ last'.err = "ConflictingRoutes") =>
    \E k \in 1..(idx - 1) : routes[k].path = routes[idx].path

\* The conflicting-routes error is thrown only when another Route object added
\* before ends, or has an optional-parameter endpoint, at the same trie node, or
\* when the pattern leaves the trie through an inherited property name.
OnlySameNodeThrows ==
  (phase' = "failed" /\ last'.err = "ConflictingRoutes") =>
    \/ HasProtoLiteral(routes[idx].path)
    \/ \E k \in 1..(idx - 1) :
         routes[k] # routes[idx] /\ EndsAtEndpointOf(routes[k].path, routes[idx].path)

C10_FailedConstructionLeavesNothing ==
  /\ phase # "new" /\ Len(routes) = 0 =>
       phase = "failed" /\ last.err = "NoRoutes"
  /\ phase # "new" /\ Len(routes) > 0 /\ routes[1].path # RootPath =>
       phase = "failed" /\ last.err = "FirstNotRoot"
  /\ phase = "failed" =>
       /\ listeners = {}
       /\ registered = {}
       /\ ncalls = 0
       /\ last.op \in {"new", "add"}
       /\ last.err \in {"NoRoutes", "FirstNotRoot", "ConflictingDynamic",
                        "ConflictingRoutes", "TypeError"}

\* C10 witness: a construction whose first route is not the root route failed.
C10_Witness ==
  /\ phase = "failed"
  /\ last.err = "FirstNotRoot"
  /\ Len(routes) = 2

(***************************************************************************)
(* C11                                                                     *)
(***************************************************************************)
\* C11: while the constructor adds routes and after it has accepted them all,
\* every node whose dynamic child is flagged optional has a terminal route.
C11_OptionalChildHasTerminal ==
  phase \in {"adding", "ready"} =>
    \A n \in 1..Len(tree) :
      tree[n].dynamic # NoDyn /\ tree[n].dynamic.optional =>
        tree[n].node # NoRoute

\* C11 witness: the constructor accepted a route list in which an optional
\* parameter made the node of "u" an endpoint of its route.
C11_Witness ==
  /\ phase = "ready"
  /\ UsersNode # 0
  /\ tree[UsersNode].dynamic.optional
  /\ tree[UsersNode].node # NoRoute
  /\ tree[UsersNode].node.path = <<"/", "u", "/", ":", "i", "?">>

(***************************************************************************)
(* C12                                                                     *)
(***************************************************************************)
\* Every cache entry is what the factory of the route an uncached resolution of
\* its pathname selects returned for the parameters that resolution extracts.
CacheSound ==
  phase = "ready" =>
    \A p \in DOMAIN metadataCache :
      LET r == Resolve(tree, p)
          m == metadataCache[p]
      IN /\ r.matched
         /\ IF r.route.falsy THEN m = FalsyMeta
            ELSE /\ m.oid = r.route.oid
                 /\ m.params = r.params
                 /\ m.inst \in 1..(nextInst - 1)

\* A find (or the find of current) that resolves nothing leaves the cache as it
\* was.
FailedFindKeepsCache ==
  ( /\ phase = "ready"
    /\ ncalls' = ncalls + 1
    /\ last'.op \in {"find", "current"}
    /\ ~last'.matched ) =>
    metadataCache' = metadataCache

\* C12: in every state of a constructed router each metadata-cache entry for a
\* pathname holds the Metadata produced by the factory of the route an uncached
\* resolution of that pathname selects, called with the parameters it extracts;
\* and a find that matches nothing leaves the cache unchanged.
C12_CacheHoldsResolution ==
  []CacheSound /\ [][FailedFindKeepsCache]_vars

\* C12 witness: the cache holds the entry of a resolved pathname with a
\* parameter, and the last find matched nothing.
C12_Witness ==
  /\ phase = "ready"
  /\ last.op = "find" /\ ~last.matched
  /\ <<"/", "u", "/", "7">> \in DOMAIN metadataCache
  /\ metadataCache[<<"/", "u", "/", "7">>].params = (<<"i">> :> <<"7">>)
  /\ last.path \notin DOMAIN metadataCache

(***************************************************************************)
(* The preload engine's inputs: its route table and the request paths.     *)
(***************************************************************************)
\* RpcSpec{Method, Params}
RpcSpec(method, params) == [Method |-> method, Params |-> params]

\* RouteSpec{Pattern, Rpcs}
RouteSpec(pattern, rpcs) == [Pattern |-> pattern, Rpcs |-> rpcs]

\* The RouteSpec values engines are configured from. Declared values are
\* ":i", ":i-c", ":j", "c" and "m:x" (a colon that is no placeholder); one
\* sub-call has nil params, one route has no sub-call, one names a method
\* twice, and one has a parameter name (i) that is a prefix of another (ij).
RouteSpecs ==
  { RouteSpec(RootPath, << RpcSpec("A", NilMap) >>),
    RouteSpec(<<"/", "u", "/", ":", "i">>,
              << RpcSpec("A", GoMap(<<"k">> :> <<":", "i">>)),
                 RpcSpec("B", GoMap((<<"k">> :> <<":", "i", "-", "c">>)
                                    @@ (<<"q">> :> <<"c">>))) >>),
    RouteSpec(<<"/", "u", "/", "m">>,
              << RpcSpec("A", GoMap(<<"k">> :> <<"m", ":", "x">>)),
                 RpcSpec("B", NilMap) >>),
    RouteSpec(<<"/", "u", "/", ":", "i", "?">>,
              << RpcSpec("A", GoMap(<<"k">> :> <<":", "i">>)),
                 RpcSpec("B", GoMap(<<"k">> :> <<"c">>)) >>),
    RouteSpec(<<"/", ":", "i", "/", ":", "j">>,
              << RpcSpec("A", GoMap(<<"k">> :> <<":", "i">>)),
                 RpcSpec("A", GoMap(<<"k">> :> <<":", "j">>)) >>),
    RouteSpec(<<"/", ":", "i", "/", ":", "i", "j">>,
              << RpcSpec("A", GoMap(<<"k">> :> <<":", "i", "j">>)) >>),
    RouteSpec(<<"/", "u", "/", ":", "i", "?", "/", "m">>, <<>>) }

\* Every route table an engine is given: 1..MaxSpecs RouteSpec values in order.
RouteTables == UNION { [1..n -> RouteSpecs] : n \in 1..MaxSpecs }

\* Request paths: "/", "/u", "/u/", "/u/m", "/u/7", "/:j/7" (a segment that
\* reads like a placeholder), "/u//m" (an empty segment) and "/u/m/7".
RequestPaths ==
  { RootPath, <<"/", "u">>, <<"/", "u", "/">>, <<"/", "u", "/", "m">>,
    <<"/", "u", "/", "7">>, <<"/", ":", "j", "/", "7">>,
    <<"/", "u", "/", "/", "m">>, <<"/", "u", "/", "m", "/", "7">> }

\* The patterns of a route table, in order.
PatternsOf(table) == [k \in 1..Len(table) |-> table[k].Pattern]

\* route.Rpcs of the matched route.
Rpcs == IF srvRoute = 0 THEN <<>> ELSE engineRoutes[srvRoute].Rpcs

(***************************************************************************)
(* executeForPath and the goroutine it starts for each sub-call.           *)
(***************************************************************************)
\* Lines 189-196: the maps and locks are made and the route is matched; with
\* no route the empty map is returned at once.
ExecuteForPath(table, path) ==
  /\ mainPc = "idle"
  /\ LET m == MatchRoute(PatternsOf(table), path)
     IN /\ engineRoutes' = table
        /\ urlPath' = path
        /\ srvRoute' = m.index
        /\ srvParams' = m.params
        /\ mainPc' = IF m.ok THEN "spawn" ELSE "returned"
  /\ UNCHANGED <<gpc, subParams, outcome, mu, wg, preloaded, returned>>

\* Lines 198-202: one turn of the loop: wg.Add(1) and the go statement.
Go ==
  /\ mainPc = "spawn"
  /\ Len(gpc) < Len(Rpcs)
  /\ wg' = wg + 1
  /\ gpc' = Append(gpc, "start")
  /\ subParams' = Append(subParams, NilMap)
  /\ outcome' = Append(outcome, "none")
  /\ UNCHANGED <<engineRoutes, urlPath, mainPc, srvRoute, srvParams, mu,
                 preloaded, returned>>

\* Lines 227-228: wg.Wait() returns once the counter is zero, then the map is
\* returned.
Wait ==
  /\ mainPc = "spawn"
  /\ Len(gpc) = Len(Rpcs)
  /\ wg = 0
  /\ returned' = preloaded
  /\ mainPc' = "returned"
  /\ UNCHANGED <<engineRoutes, urlPath, srvRoute, srvParams, gpc, subParams,
                 outcome, mu, wg, preloaded>>

\* Line 205: rpcParams := SubstituteParams(rpcSpec.Params, routeParams).
Substitute(g) ==
  /\ gpc[g] = "start"
  /\ \E orders \in [DOMAIN Rpcs[g].Params.kv -> RangeOrders(DOMAIN srvParams)] :
       subParams' = [subParams EXCEPT
                       ![g] = SubstituteParams(Rpcs[g].Params, srvParams, orders)]
  /\ gpc' = [gpc EXCEPT ![g] = "check"]
  /\ UNCHANGED <<engineRoutes, urlPath, mainPc, srvRoute, srvParams, outcome,
                 mu, wg, preloaded, returned>>

\* Lines 207-210: a sub-call with an unsubstituted param is skipped; the
\* deferred wg.Done() runs.
Skip(g) ==
  /\ gpc[g] = "check"
  /\ HasUnsubstitutedParam(subParams[g])
  /\ gpc' = [gpc EXCEPT ![g] = "done"]
  /\ outcome' = [outcome EXCEPT ![g] = "skipped"]
  /\ wg' = wg - 1
  /\ UNCHANGED <<engineRoutes, urlPath, mainPc, srvRoute, srvParams, subParams,
                 mu, preloaded, returned>>

\* Lines 212-216: p.PreloadFunc is called; on an error the goroutine returns.
Invoke(g, err) ==
  /\ gpc[g] = "check"
  /\ ~HasUnsubstitutedParam(subParams[g])
  /\ outcome' = [outcome EXCEPT ![g] = IF err THEN "failed" ELSE "ok"]
  /\ gpc' = [gpc EXCEPT ![g] = IF err THEN "done" ELSE "lock"]
  /\ wg' = IF err THEN wg - 1 ELSE wg
  /\ UNCHANGED <<engineRoutes, urlPath, mainPc, srvRoute, srvParams, subParams,
                 mu, preloaded, returned>>

\* Mutant of Lock: the mutex is taken without waiting for it to be free.
Lock_NoWait(g) ==
  /\ gpc[g] = "lock"
  /\ mu' = g
  /\ gpc' = [gpc EXCEPT ![g] = "write"]
  /\ UNCHANGED <<engineRoutes, urlPath, mainPc, srvRoute, srvParams, subParams,
                 outcome, wg, preloaded, returned>>

\* Line 218: mu.Lock() returns once the mutex is free.
Lock(g) ==
  /\ gpc[g] = "lock"
  /\ mu = 0
  /\ mu' = g
  /\ gpc' = [gpc EXCEPT ![g] = "write"]
  /\ UNCHANGED <<engineRoutes, urlPath, mainPc, srvRoute, srvParams, subParams,
                 outcome, wg, preloaded, returned>>

\* Lines 219-222: preloaded[rpcSpec.Method] = PreloadedRpc{...}; the entry is
\* modelled by the sub-call that made it and the params it was called with.
Write(g) ==
  /\ gpc[g] = "write"
  /\ preloaded' = (Rpcs[g].Method :> [by |-> g, params |-> subParams[g]])
                    @@ preloaded
  /\ gpc' = [gpc EXCEPT ![g] = "unlock"]
  /\ UNCHANGED <<engineRoutes, urlPath, mainPc, srvRoute, srvParams, subParams,
                 outcome, mu, wg, returned>>

\* Lines 223-224: mu.Unlock(), then the deferred wg.Done().
Unlock(g) ==
  /\ gpc[g] = "unlock"
  /\ mu' = 0
  /\ wg' = wg - 1
  /\ gpc' = [gpc EXCEPT ![g] = "done"]
  /\ UNCHANGED <<engineRoutes, urlPath, mainPc, srvRoute, srvParams, subParams,
                 outcome, preloaded, returned>>

PreloadNext ==
  \/ (UNCHANGED <<vars, nvars, ovars>>
        /\ \E table \in RouteTables : \E path \in RequestPaths :
             ExecuteForPath(table, path))
  \/ (Go /\ UNCHANGED <<vars, nvars, ovars>>)
  \/ (Wait /\ UNCHANGED <<vars, nvars, ovars>>)
  \/ (UNCHANGED <<vars, nvars, ovars>> /\ \E g \in DOMAIN gpc : Substitute(g))
  \/ (UNCHANGED <<vars, nvars, ovars>> /\ \E g \in DOMAIN gpc : Skip(g))
  \/ (UNCHANGED <<vars, nvars, ovars>> /\ \E g \in DOMAIN gpc : \E err \in BOOLEAN : Invoke(g, err))
  \/ (UNCHANGED <<vars, nvars, ovars>> /\ \E g \in DOMAIN gpc : Lock(g))
  \/ (UNCHANGED <<vars, nvars, ovars>> /\ \E g \in DOMAIN gpc : Write(g))
  \/ (UNCHANGED <<vars, nvars, ovars>> /\ \E g \in DOMAIN gpc : Unlock(g))

PreloadSpec == Init /\ [][PreloadNext]_allVars

(***************************************************************************)
(* Properties of the linear matcher.                                       *)
(***************************************************************************)
\* The routes of the engine's table whose pattern matches the request path.
MatchingRoutes ==
  { k \in 1..Len(engineRoutes) : MatchPattern(engineRoutes[k].Pattern, urlPath).ok }

\* C13: MatchRoute returns the lowest-index route whose pattern matches the
\* path, with that pattern's extracted parameters, and returns no route only
\* if no pattern of the list matches.
C13_FirstMatchingRoute ==
  mainPc # "idle" =>
    LET hits == MatchingRoutes
    IN IF hits = {} THEN srvRoute = 0
       ELSE /\ srvRoute \in hits
            /\ \A k \in hits : srvRoute <= k
            /\ srvParams = MatchPattern(engineRoutes[srvRoute].Pattern, urlPath).params

\* ["/u/:i", "/u/m"] and the path /u/m: the first route is returned, i = "m".
C13_Witness ==
  /\ mainPc # "idle"
  /\ PatternsOf(engineRoutes) = << <<"/", "u", "/", ":", "i">>, <<"/", "u", "/", "m">> >>
  /\ urlPath = <<"/", "u", "/", "m">>
  /\ srvRoute = 1
  /\ srvParams = (<<"i">> :> <<"m">>)

\* The walks of a pattern over a path: pos[k] is the number of path segments
\* consumed once pattern segment k is done. A literal consumes the segment it
\* equals, a required dynamic consumes one segment, an optional dynamic
\* consumes one if one remains, and at the end the whole path is consumed.
WalksOf(pattern, path) ==
  LET pp == SplitPath(pattern)
      sp == SplitPath(path)
  IN { pos \in [0..Len(pp) -> 0..Len(sp)] :
         /\ pos[0] = 0
         /\ pos[Len(pp)] = Len(sp)
         /\ \A k \in 1..Len(pp) :
              IF ~StartsWith(pp[k], ":")
                THEN /\ pos[k - 1] < Len(sp)
                     /\ sp[pos[k - 1] + 1] = pp[k]
                     /\ pos[k] = pos[k - 1] + 1
              ELSE IF ~EndsWith(pp[k], "?")
                THEN /\ pos[k - 1] < Len(sp)
                     /\ pos[k] = pos[k - 1] + 1
              ELSE pos[k] = IF pos[k - 1] < Len(sp) THEN pos[k - 1] + 1
                            ELSE pos[k - 1] }

\* The bindings a walk makes: each dynamic segment that consumed a path
\* segment binds its name to it, a later binding of a name replacing an
\* earlier one.
BindingsOf(pattern, path, pos) ==
  LET pp == SplitPath(pattern)
      sp == SplitPath(path)
      binders == { k \in 1..Len(pp) : StartsWith(pp[k], ":") /\ pos[k] > pos[k - 1] }
      lastOf(name) == CHOOSE k \in binders :
                        /\ GoParamName(pp[k]) = name
                        /\ \A j \in binders : GoParamName(pp[j]) = name => j <= k
  IN [name \in { GoParamName(pp[k]) : k \in binders } |-> sp[pos[lastOf(name)]]]

\* C14: MatchPattern succeeds exactly when the walk over the pattern consumes
\* the whole path, and then returns exactly the bindings the walk made. Every
\* pattern MatchRoute tried is judged: those before the returned route failed,
\* the returned one succeeded, and with no route returned all of them failed.
C14_MatchPatternIsTheWalk ==
  mainPc # "idle" =>
    \A k \in 1..Len(engineRoutes) :
      (srvRoute = 0 \/ k <= srvRoute) =>
        LET walks == WalksOf(engineRoutes[k].Pattern, urlPath)
        IN IF k = srvRoute
             THEN /\ walks # {}
                  /\ \A pos \in walks :
                       srvParams = BindingsOf(engineRoutes[k].Pattern, urlPath, pos)
             ELSE walks = {}

\* /u/:i?/m over /u//m: the optional dynamic consumes the empty segment and
\* binds it, the literal m consumes the last segment.
C14_Witness ==
  /\ mainPc # "idle"
  /\ Len(engineRoutes) = 1
  /\ engineRoutes[1].Pattern = <<"/", "u", "/", ":", "i", "?", "/", "m">>
  /\ urlPath = <<"/", "u", "/", "/", "m">>
  /\ srvRoute = 1
  /\ srvParams = (<<"i">> :> <<>>)

(***************************************************************************)
(* Properties of executeForPath.                                           *)
(***************************************************************************)
\* Some value of goroutine g's substituted params contains a ':'.
Unresolved(g) ==
  \E key \in DOMAIN subParams[g].kv : ContainsColon(subParams[g].kv[key])

\* PreloadFunc was called for goroutine g's sub-call.
Invoked(g) == outcome[g] \in {"failed", "ok"}

\* Goroutine g made an entry of the map.
WroteTo(map, g) == \E method \in DOMAIN map : map[method].by = g

\* C15: PreloadFunc is never invoked for a sub-call one of whose substituted
\* values contains a ':', such a sub-call makes no entry of the map, and when
\* executeForPath returns every sub-call of the matched route whose
\* substituted values contain no ':' (nil params included) has been invoked.
C15_UnresolvedSubCallsSkipped ==
  /\ \A g \in DOMAIN gpc :
       (gpc[g] # "start" /\ Unresolved(g)) =>
         /\ ~Invoked(g)
         /\ ~WroteTo(preloaded, g)
         /\ ~WroteTo(returned, g)
  /\ (mainPc = "returned" /\ srvRoute # 0) =>
       /\ Len(gpc) = Len(Rpcs)
       /\ \A g \in DOMAIN gpc : ~Unresolved(g) => Invoked(g)

\* /u/m served from the route /u/m: the sub-call with "m:x" was skipped and
\* the sub-call with nil params was invoked and made the only entry.
C15_Witness ==
  /\ mainPc = "returned"
  /\ srvRoute # 0
  /\ engineRoutes[srvRoute].Pattern = <<"/", "u", "/", "m">>
  /\ outcome = <<"skipped", "ok">>
  /\ Unresolved(1)
  /\ subParams[2].nil
  /\ DOMAIN returned = {"B"}

(***************************************************************************)
(* Properties of the param substitution.                                   *)
(***************************************************************************)
\* The extracted parameter names whose token ":name" stands at position i of
\* a declared value.
TokensAt(value, names, i) ==
  { n \in names : /\ i + Len(n) <= Len(value)
                  /\ SubSeq(value, i, i + Len(n)) = <<":">> \o n }

\* A declared value with every token of an extracted parameter replaced by the
\* parameter's extracted value and every other character kept, from position
\* i on. (No parameter name of the model's routes is a prefix of another, so
\* at most one token stands at a position.)
RECURSIVE TokensReplacedFrom(_, _, _)
TokensReplacedFrom(value, extracted, i) ==
  IF i > Len(value) THEN <<>>
  ELSE LET here == TokensAt(value, DOMAIN extracted, i)
       IN IF here = {} THEN <<value[i]>> \o TokensReplacedFrom(value, extracted, i + 1)
          ELSE LET n == CHOOSE n \in here : TRUE
               IN extracted[n] \o TokensReplacedFrom(value, extracted, i + 1 + Len(n))

\* The declared params with the same keys and every value's tokens replaced.
TokensReplaced(declared, extracted) ==
  IF declared.nil THEN NilMap
  ELSE GoMap([key \in DOMAIN declared.kv |->
                TokensReplacedFrom(declared.kv[key], extracted, 1)])

\* C16: SubstituteParams replaces, in every declared value, every occurrence
\* of ':name' of an extracted parameter with that parameter's extracted value,
\* and leaves all other text, all keys and the tokens of no extracted
\* parameter unchanged; a value in which such a token is left is reported
\* unresolved by HasUnsubstitutedParam.
C16_TokensReplacedOnly ==
  \A g \in DOMAIN gpc :
    gpc[g] # "start" =>
      /\ subParams[g] = TokensReplaced(Rpcs[g].Params, srvParams)
      /\ (\E key \in DOMAIN subParams[g].kv :
            \E i \in 1..Len(subParams[g].kv[key]) :
              /\ subParams[g].kv[key][i] = ":"
              /\ TokensAt(subParams[g].kv[key], DOMAIN srvParams, i) = {})
           => HasUnsubstitutedParam(subParams[g])

(***************************************************************************)
(* Properties of the fan-out: the mutex, the wait barrier, the result.     *)
(***************************************************************************)
\* The goroutines between mu.Lock() and mu.Unlock().
InCritical == { g \in DOMAIN gpc : gpc[g] \in {"write", "unlock"} }

\* The mutex is held by the one goroutine between Lock and Unlock, if any.
MutexGuardsWrites ==
  /\ Cardinality(InCritical) <= 1
  /\ \A g \in InCritical : mu = g

\* A step that changes the map is the write of the goroutine holding the mutex.
WriteUnderMutex ==
  preloaded' # preloaded =>
    /\ mu # 0
    /\ mu' = mu
    /\ gpc[mu] = "write"
    /\ gpc'[mu] = "unlock"
    /\ \A g \in DOMAIN gpc : g # mu => gpc'[g] = gpc[g]

\* The map is returned after every goroutine was started and has finished,
\* holding an entry for exactly the methods of the sub-calls that were invoked
\* and returned no error.
ReturnedAfterBarrier ==
  (mainPc = "returned" /\ srvRoute # 0) =>
    /\ Len(gpc) = Len(Rpcs)
    /\ \A g \in DOMAIN gpc : gpc[g] = "done"
    /\ wg = 0 /\ mu = 0
    /\ returned = preloaded
    /\ DOMAIN returned = { Rpcs[g].Method : g \in { h \in DOMAIN gpc : outcome[h] = "ok" } }

\* C17: every write to the aggregated map is made while holding the mutex,
\* the map is returned only after every sub-call goroutine has finished, and
\* the returned map holds an entry for exactly the method names whose
\* sub-call was executed and returned no error.
C17_GuardedFanOut ==
  /\ []MutexGuardsWrites
  /\ []ReturnedAfterBarrier
  /\ [][WriteUnderMutex]_allVars

\* /u/7 served from /u/:i: both sub-calls were invoked, the first failed, the
\* second wrote its entry under the mutex, and the map was returned.
C17_Witness ==
  /\ mainPc = "returned"
  /\ srvRoute # 0
  /\ engineRoutes[srvRoute].Pattern = <<"/", "u", "/", ":", "i">>
  /\ outcome = <<"failed", "ok">>
  /\ DOMAIN returned = {"B"}
  /\ returned["B"].by = 2
  /\ returned["B"].params.kv[<<"k">>] = <<"7", "-", "c">>

(***************************************************************************)
(* Properties of url.                                                      *)
(***************************************************************************)
\* The last call was url on a route that is registered.
UrlOnRegistered == last.op = "url" /\ last.route \in registered

\* The segments of the pattern url was called with.
UrlSegs == SplitFiltered(last.route.path)

\* Segment k of the pattern is dynamic and params has no entry for it.
AbsentAt(k) ==
  StartsWith(UrlSegs[k], ":") /\ ParamName(UrlSegs[k]) \notin DOMAIN last.params

\* The walk reaches segment k: every dynamic segment before it has a
\* non-empty value in params.
ReachedAt(k) ==
  \A j \in 1..(k - 1) :
    StartsWith(UrlSegs[j], ":") =>
      /\ ParamName(UrlSegs[j]) \in DOMAIN last.params
      /\ last.params[ParamName(UrlSegs[j])] # <<>>

\* The segments before segment k, a dynamic one as its parameter's value.
PrefixBefore(k) ==
  [j \in 1..(k - 1) |->
     IF StartsWith(UrlSegs[j], ":") THEN last.params[ParamName(UrlSegs[j])]
     ELSE UrlSegs[j]]

Listed == {routes[k] : k \in 1..Len(routes)}

\* C20 (as claimed): url throws the unregistered-route error, building
\* nothing, for every Route object that was not in the constructor's list, and
\* does not throw it for any Route object that was in the list.
C20_RegisteredByIdentity ==
  last.op = "url" =>
    /\ last.route \notin Listed =>
         last.err = "Unregistered" /\ last.url = <<>>
    /\ last.route \in Listed => last.err # "Unregistered"

\* C20 (amended): url throws the unregistered-route error exactly for the
\* Route objects that were not in the constructor's list and, once cleanup has
\* been called, for every Route object; it throws it before building anything
\* (no URL, and no missing-parameter error in its place).
C20_RegisteredByIdentityUntilCleanup ==
  last.op = "url" =>
    /\ last.err = "Unregistered" <=> (last.route \notin Listed \/ phase = "cleaned")
    /\ last.err = "Unregistered" =>
         last.url = <<>> /\ last.path = <<>> /\ last.about = <<>>

\* Another Route object with the path /u/:i of a listed route, and no i given:
\* the error is the unregistered-route error.
C20_Witness ==
  /\ last.op = "url"
  /\ phase = "ready"
  /\ last.route \notin Listed
  /\ last.route.path = <<"/", "u", "/", ":", "i">>
  /\ \E r \in Listed : r.path = last.route.path
  /\ last.params = EmptyParams
  /\ last.err = "Unregistered"


(***************************************************************************)
(* C21: cleanup.                                                           *)
(***************************************************************************)
\* The router's fields right after a cleanup.
CleanedUp ==
  /\ "onPopstate" \notin listeners
  /\ subscribers = <<>>
  /\ registered = {}
  /\ metadataCache = [k \in {} |-> NullMeta]
  /\ tree[1] = EmptyNode

\* The invocations of the running operation made from a popstate listener.
ByPopstate(k) == navLog[k].by \in {"popstate", "navPopstate"}

\* C21 as stated, its last part: no subscriber callback is invoked from a
\* popstate event once cleanup was called.
C21_NeverCalledAfterCleanup ==
  \A k \in 1..Len(navLog) : ByPopstate(k) => ~navLog[k].cleaned

\* A callback of the same call of the subscribers called cleanup before
\* invocation k.
CleanedByEarlierCallback(k) ==
  \E j \in 1..(k - 1) :
    /\ navLog[j].cb = "cleans"
    /\ navLog[j].by = navLog[k].by
    /\ ~navLog[j].cleaned

\* C21: every call of cleanup, the first and the later ones, returns without
\* error and leaves the listener removed, the subscribers, the registered set
\* and the metadata cache empty and the tree an empty node; a popstate event
\* dispatched after cleanup invokes no subscriber callback: a callback is
\* invoked from a popstate listener on a cleaned-up router only in the call
\* of the subscribers during which one of its callbacks called cleanup.
C21_CleanupReleasesEverything ==
  /\ last.op = "cleanup" => CleanedUp /\ last.err = ""
  /\ \A k \in 1..Len(navLog) :
       ByPopstate(k) /\ navLog[k].cleaned => CleanedByEarlierCallback(k)

\* cleanup was called on a router that had a subscriber, and a popstate
\* event that came afterwards invoked nothing.
C21_Witness ==
  /\ phase = "cleaned"
  /\ last.op = "popstate"
  /\ navPc = "idle"
  /\ navLog = <<>>
  /\ handles # {}
  /\ subscribers = <<>>
  /\ ncalls = 1


(***************************************************************************)
(* C28: the callback set.                                                  *)
(***************************************************************************)
\* The references invoked so far by the call of the subscribers that is
\* running, in invocation order.
RECURSIVE InvokedBy(_, _)
InvokedBy(pc, k) ==
  IF k = 0 THEN <<>>
  ELSE IF navLog[k].by = pc
    THEN Append(InvokedBy(pc, k - 1), navLog[k].rid)
    ELSE InvokedBy(pc, k - 1)

\* The references of a list of registrations.
Rids(set) == [k \in 1..Len(set) |-> set[k].rid]

\* A call of the subscribers ends with this step.
CallEnds == navPc # "idle" /\ navPc' # navPc

\* C28 as stated: when a call ends, it has invoked exactly the callbacks that
\* were registered when it started, each once per registration.
C28_CallInvokesAllRegistered ==
  [][CallEnds => InvokedBy(navPc, Len(navLog)) = Rids(callCopy)]_allVars

\* While a call runs, it has invoked the first callbacks of the snapshot taken
\* when it started, in order, once per registration: nothing added meanwhile,
\* and what was removed meanwhile still.
InvokesTheSnapshot ==
  navPc # "idle" =>
    InvokedBy(navPc, Len(navLog)) = SubSeq(Rids(callCopy), 1, callPos - 1)

\* A call that no callback left by throwing ends having gone through the
\* whole snapshot.
EndsAfterAll ==
  CallEnds /\ ~callThrew => callPos = Len(callCopy) + 1

\* Calling an unsubscribe function removes its registration and no other one.
RemovesOnlyItsOwn ==
  \A rid \in unsubscribed' \ unsubscribed :
    /\ \A j \in 1..Len(subscribers') : subscribers'[j].rid # rid
    /\ SelectSeq(subscribers', LAMBDA r : r.rid < nextReg)
         = SelectSeq(subscribers, LAMBDA r : r.rid # rid)

\* C28: call(args) invokes the callbacks registered at the moment it started,
\* in registration order, each once per registration, up to the first one
\* that throws: a callback added while the call runs is not invoked in it,
\* one removed while it runs still is; when no callback throws, all of them
\* are invoked and the call ends; the function returned by add removes only
\* that one registration.
C28_CallInvokesTheSnapshot ==
  /\ []InvokesTheSnapshot
  /\ [][EndsAfterAll /\ RemovesOnlyItsOwn]_allVars
  /\ (navPc # "idle") ~> (navPc = "idle")

\* A call that ended after a callback added a registration during it and
\* another one was removed during it: two callbacks invoked, three
\* registrations made.
C28_Witness ==
  /\ navPc = "idle"
  /\ last.op \in {"popstate", "navigate"}
  /\ last.err = ""
  /\ addsDone
  /\ unsubscribed # {}
  /\ \E k \in 1..Len(navLog) : navLog[k].cb = "adds" /\ navLog[k].by # "onNavigate"
  /\ \E k \in 1..Len(navLog) : navLog[k].cb = "unsubscribes" /\ navLog[k].by # "onNavigate"


(***************************************************************************)
(* C29: onNavigate and navigate.                                           *)
(***************************************************************************)
\* How many times the running operation invoked reference rid with arg.
RECURSIVE TimesInvoked(_, _, _)
TimesInvoked(rid, arg, k) ==
  IF k = 0 THEN 0
  ELSE TimesInvoked(rid, arg, k - 1)
         + (IF navLog[k].rid = rid /\ navLog[k].arg = arg THEN 1 ELSE 0)

\* navigate(path) has returned on a router whose subscribers all just return.
NavigateReturned ==
  /\ last.op = "navigate"
  /\ last.err = ""
  /\ navPc = "idle"
  /\ phase = "ready"
  /\ \A k \in 1..Len(navStart) : navStart[k].cb = "returns"

\* C29: a navigate(path) to a resolvable path has invoked every callback that
\* was subscribed when it was called exactly once, with the metadata of path,
\* whichever window API the router uses.
C29_NavigateInvokesOnce ==
  NavigateReturned =>
    \A k \in 1..Len(navStart) :
      TimesInvoked(navStart[k].rid, CacheGet(metadataCache, last.path),
                   Len(navLog)) = 1


(***************************************************************************)
(* C22: AuthMiddleware and RequireAuth.                                    *)
(***************************************************************************)
\* Whether something of this kind ran for the request.
HasRun(what) == \E k \in 1..Len(ran) : ran[k].what = what

\* The request went through an AuthMiddleware.
BehindAuth == validated # -1

RECURSIVE TokenAfter(_)
TokenAfter(k) ==
  IF k = 0 THEN 0
  ELSE IF ran[k].what = "middleware"
          /\ middlewares[ran[k].m] \in {"authA", "authB"}
          /\ Validate(middlewares[ran[k].m], request) # 0
    THEN Validate(middlewares[ran[k].m], request)
    ELSE TokenAfter(k - 1)

\* RequireAuth's check ran on a context without a token.
Rejected == HasRun("RequireAuth") /\ ctxToken = 0

InOrderOfUse ==
  \A k \in 1..Len(ran) : ran[k].what = "middleware" => ran[k].m = k

\* Whatever ran that is not a middleware ran after all the middlewares.
HandlerAfterAll ==
  \A k \in 1..Len(ran) :
    ran[k].what # "middleware" =>
      /\ k > Len(middlewares)
      /\ \A j \in 1..Len(middlewares) : ran[j] = Ran("middleware", j)

\* Nothing ran after a middleware that returned without calling next.
StopPrevents ==
  \A k \in 1..Len(ran) :
    ran[k].what = "middleware" /\ middlewares[ran[k].m] = "stop" =>
      Len(ran) = k

\* C23: a dispatched request goes through the middlewares in the order they
\* were added with Use, the first added first, and reaches the base handler
\* after the last one; once a middleware returns without calling next,
\* neither a later middleware nor the handler runs.
C23_MiddlewareOrder ==
  /\ InOrderOfUse
  /\ HandlerAfterAll
  /\ StopPrevents
  /\ dpc \in {"respond", "served"} /\ request.http = "POST" /\ request.bodyOk
     /\ middlewares # <<>> => ran # <<>> /\ ran[1] = Ran("middleware", 1)

\* A request went through two different middlewares and reached its handler.
C23_Witness ==
  /\ dpc = "served"
  /\ middlewares = <<"authA", "pass">>
  /\ ran = <<Ran("middleware", 1), Ran("middleware", 2), Ran("base", 0),
             Ran("handler", 0)>>
  /\ status = 200


(***************************************************************************)
(* C24: the codegen hash cache.                                            *)
(***************************************************************************)
\* WriteHash followed by ReadStoredHash returns the hash written, and
\* ReadStoredHash returns "" when nothing is stored.
HashRoundTrip ==
  /\ cgResult = "written" => readBack = hashFile.data /\ hashFile.exists
  /\ ~hashFile.exists => ReadStoredHash(hashFile) = ""

\* A run without --force skipped generation exactly when the stored hash was
\* the hash of the proto file.
SkipsExactlyWhenUnchanged ==
  /\ cgResult = "skipped" =>
       ~cgForce /\ storedAtStart = HashFile(protoContent)
  /\ cgResult \in {"running", "failed", "ok"} =>
       cgForce \/ storedAtStart # HashFile(protoContent)

\* A failed run left the stored hash as it was, and a running one too.
FailedRunKeepsHash ==
  cgResult \in {"running", "failed"} =>
    ReadStoredHash(hashFile) = storedAtStart

\* After a failed run, a run without --force generates again.
NextRunRegenerates ==
  cgResult = "failed" => ~Skips(FALSE, hashFile, protoContent)

\* C24: WriteHash then ReadStoredHash returns the hash, ReadStoredHash returns
\* "" when nothing was stored, a run without --force skips exactly when the
\* stored hash is the proto file's, the hash is written only after every step
\* succeeded, so a failed run leaves it unchanged and the next run generates
\* again.
C24_HashCaching ==
  /\ HashRoundTrip
  /\ SkipsExactlyWhenUnchanged
  /\ FailedRunKeepsHash
  /\ NextRunRegenerates


(***************************************************************************)
(* C25: the static edge before the dynamic one.                            *)
(***************************************************************************)
\* "/users/me", written "/u/m".
UsersMe == <<"/", "u", "/", "m">>

\* C25: with "/users/:id" and "/users/me" both registered, in either order,
\* find("/users/me") returns the metadata of the "/users/me" route: its
\* factory's value for no parameters, and on a first lookup from one call of
\* that factory.
C25_StaticEdgePreferred ==
  last.op = "find" /\ last.path = UsersMe =>
    \A R \in registered :
      R.path = UsersMe /\ (\E D \in registered : D.path = UsersId) =>
        /\ last.matched
        /\ last.err = ""
        /\ last.result = IF R.falsy THEN FalsyMeta
                         ELSE [oid |-> R.oid, params |-> EmptyParams,
                               inst |-> last.result.inst]
        /\ ~last.hit => last.calls = <<[oid |-> R.oid, params |-> EmptyParams]>>

\* find("/users/me") on a router built from "/", "/users/:id", "/users/me" in
\* that order.
C25_Witness ==
  /\ last.op = "find"
  /\ last.path = UsersMe
  /\ ~last.hit
  /\ Len(routes) = 3
  /\ routes[2].path = UsersId
  /\ routes[3].path = UsersMe
  /\ last.result.oid = routes[3].oid


(***************************************************************************)
(* C26: framing round trip.                                                *)
(***************************************************************************)
\* Where the k-th frame written ends in the bytes written.
RECURSIVE FrameEnd(_)
FrameEnd(k) ==
  IF k = 0 THEN 0 ELSE FrameEnd(k - 1) + PrefixLen + Len(sent[k])

\* The reader was given everything that was written.
Whole == fpc = "reading" /\ data = wire

\* What was read so far is the beginning of what was sent.
ReadBackInOrder == got = SubSeq(sent, 1, Len(got))

\* C26 as stated: whatever the messages, what is read back from all the bytes
\* written is the messages sent, in order, then io.EOF.
C26_RoundTrip ==
  Whole =>
    /\ Len(got) <= Len(sent)
    /\ ReadBackInOrder
    /\ ferr # "UnexpectedEOF"
    /\ ferr = "EOF" => got = sent

\* Every message sent is short enough for its length to fit the prefix.
AllFit == \A k \in 1..Len(sent) : Len(sent[k]) < Pow(PrefixLen)

\* C26: when every message is shorter than the range of the 4-byte prefix,
\* successive Next calls on all the bytes written return the messages sent,
\* in order, then io.EOF on every further call; on the first n bytes written
\* they return the messages whose frames are complete, then io.EOF when the
\* buffer ends with a frame and io.ErrUnexpectedEOF when it ends inside a
\* prefix or a body. Next never advances its offset when it returns an error.
C26_RoundTripWithinPrefixRange ==
  /\ ferr \in {"EOF", "UnexpectedEOF"} => offset = offsetBefore
  /\ ferr = "EOF" => NextMessage(data, offset).err = "EOF"
  /\ fpc = "reading" /\ AllFit =>
       /\ Len(got) <= Len(sent)
       /\ ReadBackInOrder
       /\ offset = FrameEnd(Len(got))
       /\ ferr = "EOF" => Len(data) = FrameEnd(Len(got))
       /\ ferr = "UnexpectedEOF" =>
            /\ Len(got) < Len(sent)
            /\ offset < Len(data)
            /\ Len(data) < FrameEnd(Len(got) + 1)
       /\ ferr = "" /\ Len(got) < Len(sent) /\ offset < Len(data)
            /\ Len(data) < FrameEnd(Len(got) + 1) =>
            NextMessage(data, offset).err = "UnexpectedEOF"
       /\ Whole => ferr # "UnexpectedEOF" /\ (ferr = "EOF" => got = sent)

\* Two messages, the second one empty, were read back and followed by io.EOF.
C26_Witness ==
  /\ Whole
  /\ sent = << <<1, 0>>, <<>> >>
  /\ got = sent
  /\ ferr = "EOF"
  /\ offset = Len(data)


(***************************************************************************)
(* C27: every call of a non-streaming method through the proxy sends the   *)
(* stores exactly one send event before the client's method is invoked,    *)
(* then exactly one result event, carrying ok(response) when the call      *)
(* resolved and err(error) when it rejected, and the caller receives that  *)
(* same response or error; streaming methods dispatch no events.           *)
(***************************************************************************)
EventsOf(c, type) ==
  SelectSeq(events, LAMBDA e : e.call = c /\ e.type = type)

\* The unary calls that have come to their end.
FinishedUnary ==
  { c \in 1..Len(proxyCalls) :
      /\ proxyCalls[c].method \notin ProxyStreamingMethods \cup ProxyPlainProperties
      /\ proxyCalls[c].pc = "done" }

C27_OneSendOneResult ==
  /\ \A c \in FinishedUnary :
        /\ Len(EventsOf(c, "send")) = 1
        /\ proxyCalls[c].invoked
        /\ Len(EventsOf(c, "result")) = 1
        /\ proxyCalls[c].outcome = "resolved" =>
              /\ EventsOf(c, "result")[1].result = "ok"
              /\ EventsOf(c, "result")[1].value = "response"
              /\ proxyCalls[c].got = "response"
        /\ proxyCalls[c].outcome = "rejected" =>
              /\ EventsOf(c, "result")[1].result = "err"
              /\ EventsOf(c, "result")[1].value = "clientError"
              /\ proxyCalls[c].got = "clientError"
  /\ \A c \in 1..Len(proxyCalls) :
        proxyCalls[c].method \in ProxyStreamingMethods =>
          /\ EventsOf(c, "send") = <<>>
          /\ EventsOf(c, "result") = <<>>


\* The results SubstituteParams can return for sub-call g's declared params
\* and the extracted route parameters, over the orders in which the
\* route-parameter map may be iterated.
ResultsOfSubstitute(g) ==
  { SubstituteParams(Rpcs[g].Params, srvParams, orders) :
      orders \in [DOMAIN Rpcs[g].Params.kv -> RangeOrders(DOMAIN srvParams)] }

\* C30: SubstituteParams is deterministic: for the same declared values and
\* the same extracted route parameters, every call returns the same result,
\* whatever the order in which the route-parameter map is iterated, also
\* when one parameter name is a prefix of another or an extracted value
\* holds ':name' text.
C30_SubstituteDeterministic ==
  \A g \in DOMAIN gpc :
    gpc[g] # "start" => ResultsOfSubstitute(g) = {subParams[g]}

====
